---- MODULE Spec2Model ----
(***************************************************************************)
(* Model of audition-marker_2_mp3-id3-tag: the CTOC frame codec            *)
(* (CTOCFrame.Size / CTOCFrame.WriteTo / extractCTOCInfo), the chapter     *)
(* frame assembly (addChapterFrames) fed by the marker parser              *)
(* (ParseAuditionCSV), and the file orchestration of AddChapters.          *)
(*                                                                         *)
(* Strings are sequences of byte values.  Go slices are 0-based; the       *)
(* operators At and Slice keep the source's 0-based indices.               *)
(***************************************************************************)
EXTENDS Integers, Sequences, FiniteSets, TLC

VARIABLES
    \* ---- CTOC codec -----------------------------------------------------
    cf,        \* the CTOCFrame being written (receiver of Size / WriteTo)
    wpc,       \* position inside CTOCFrame.WriteTo
    wk,        \* index of the next child id WriteTo writes
    wbuf,      \* bytes the io.Writer has received
    wn,        \* WriteTo's running byte count n
    werr,      \* TRUE when WriteTo returned an error
    body,      \* UnknownFrame.Body handed to extractCTOCInfo
    info,      \* value returned by extractCTOCInfo
    term,      \* id3v2 Encoding.TerminationBytes appended by TextFrame.WriteTo
    \* ---- marker source and chapter frame assembly ------------------------
    records,   \* rows of the marker table read by ParseAuditionCSV
    parsed,    \* result of ParseAuditionCSV
    markers,   \* marker list handed to addChapterFrames
    tag,       \* frames of the id3v2.Tag: [CHAP, CTOC, other]
    tag0,      \* the tag as it was before the first call
    calls,     \* number of addChapterFrames calls made with these markers
    apc,       \* position of the assembly run
    \* ---- AddChapters on the file system ----------------------------------
    mp3Path,   \* argument mp3Path
    outputPath,\* argument outputPath ("" when not given)
    out,       \* outputPath as resolved by AddChapters
    disk,      \* the file system: path -> file content, or Absent
    disk0,     \* the file system before the call
    fpc,       \* position inside AddChapters
    ferr,      \* the error AddChapters returned
    tagOpen,   \* an id3v2.Tag is open
    tmpCreated,\* os.Create(tempPath) has succeeded in this call
    confirmed, \* confirmOperation has returned nil in this call
    response,  \* the line confirmOperation read last, <<>> when none
    chapters,  \* the list ReadChapters returned
    build,     \* the platform the program was built for
    timeIn,   \* the string handed to parseTimeString
    duration,  \* the Duration handed to FormatDuration
    timeOut,   \* what parseTimeString returned
    tpc,       \* the position of the time codec
    \* ---- Execute ---------------------------------------------------------
    csvPath,   \* the -csv argument ("" when not given)
    epc,       \* the step Execute is at
    exitCode   \* the exit status, -1 while the process runs

codecVars == <<cf, wpc, wk, wbuf, wn, werr, body, info, term>>
asmVars == <<records, parsed, markers, tag, tag0, calls, apc>>
timeVars == <<build, timeIn, duration, timeOut, tpc>>
execVars == <<csvPath, epc, exitCode>>
fileVarsButPc == <<mp3Path, outputPath, out, disk, disk0, ferr, tagOpen, tmpCreated, confirmed, response, chapters, timeVars, execVars>>
fileVars == <<mp3Path, outputPath, out, disk, disk0, fpc, ferr, tagOpen, tmpCreated, confirmed, response, chapters, timeVars, execVars>>
vars == <<cf, wpc, wk, wbuf, wn, werr, body, info, term,
          records, parsed, markers, tag, tag0, calls, apc,
          mp3Path, outputPath, out, disk, disk0, fpc, ferr, tagOpen, tmpCreated, confirmed, response, chapters, timeVars, execVars>>

----------------------------------------------------------------------------
(* Byte strings *)

\* a nil *id3v2.TextFrame; a set pointer is the one-element tuple of its Text
NilTitle == <<>>

TitleOf(text) == <<text>>

\* the value of a result variable before the function has returned
Unset == [err |-> "unset"]

NoError == "nil"

At(d, i) == d[i + 1]

Slice(d, a, b) == SubSeq(d, a + 1, b)

Bytes_chp == <<99, 104, 112>>

Bytes_toc == <<116, 111, 99>>

Bytes_TIT2 == <<84, 73, 84, 50>>

\* "Table of Contents"
Bytes_tocTitle ==
    <<84, 97, 98, 108, 101, 32, 111, 102, 32, 67, 111, 110, 116, 101, 110, 116, 115>>

EncodingUTF8Key == 3

ByteMod == 256

RECURSIVE Sprintf_d(_)
\* fmt.Sprintf("%d", i) for i >= 0: decimal digits, most significant first
Sprintf_d(i) ==
    IF i < 10 THEN <<48 + i>>
    ELSE Sprintf_d(i \div 10) \o <<48 + (i % 10)>>

\* fmt.Sprintf("chp%d", i)
ElementIDOf(i) == Bytes_chp \o Sprintf_d(i)

RECURSIVE SumLenRange(_, _, _)
\* the sum of len(id) + 1 over ids[lo..hi], halving the range to keep the
\* evaluation shallow
SumLenRange(ids, lo, hi) ==
    IF lo > hi THEN 0
    ELSE IF lo = hi THEN Len(ids[lo]) + 1
    ELSE LET mid == (lo + hi) \div 2 IN
         SumLenRange(ids, lo, mid) + SumLenRange(ids, mid + 1, hi)

\* for _, id := range ChildIDs { size += len(id) + 1 }
SumLen(ids) == SumLenRange(ids, 1, Len(ids))

----------------------------------------------------------------------------
(* Bounds of the model and the inputs drawn from them *)

\* longest marker list handed to assembly
MaxMarkers == 3

\* longest raw frame body handed to extractCTOCInfo
MaxBody == 5

\* largest child count a single count byte holds
MaxChildCount == 255

RawAlphabet == {0, 1, 2, 99}

RECURSIVE SeqsUpTo(_, _)
SeqsUpTo(S, n) ==
    IF n = 0 THEN {<<>>}
    ELSE LET shorter == SeqsUpTo(S, n - 1) IN
         shorter \cup {Append(q, x) : q \in {r \in shorter : Len(r) = n - 1}, x \in S}

RawBodies == SeqsUpTo(RawAlphabet, MaxBody)

RECURSIVE KeptIDs(_, _, _)
\* the element ids "chp<i>" of the positions i in S, ascending, for i in from..to
KeptIDs(S, from, to) ==
    IF from > to THEN <<>>
    ELSE (IF from \in S THEN <<ElementIDOf(from)>> ELSE <<>>) \o KeptIDs(S, from + 1, to)

ChildLists == {KeptIDs(S, 0, MaxMarkers - 1) : S \in SUBSET (0..(MaxMarkers - 1))}

FullChildList == [i \in 1..MaxChildCount |-> ElementIDOf(i - 1)]

FrameElementIDs == {Bytes_toc, <<>>}

FrameTitles == {<<>>, Bytes_tocTitle, <<84>>}

TerminationBytes == {<<>>, <<0>>}

----------------------------------------------------------------------------
(* id3v2.TextFrame, as used for the embedded title *)

\* TextFrame.WriteTo: encoding key, text, the encoding's termination bytes
TextFrameBytes(text) == <<EncodingUTF8Key>> \o text \o term

\* TextFrame.Size
TextFrameSize(text) == 1 + Len(text) + Len(term)

----------------------------------------------------------------------------
(* CTOCFrame.Size *)

\* a Size that forgets the terminator of each child id
SizeNoChildTerminators(f) ==
    (Len(f.ElementID) + 1) + 1 + 1
    + (SumLen(f.ChildIDs) - Len(f.ChildIDs))
    + (IF f.Title # NilTitle THEN 10 + TextFrameSize(f.Title[1]) ELSE 0)

Size(f) ==
    (Len(f.ElementID) + 1) + 1 + 1
    + SumLen(f.ChildIDs)
    + (IF f.Title # NilTitle THEN 10 + TextFrameSize(f.Title[1]) ELSE 0)

\* createCTOCFrame: Title stays nil when the title string is empty
createCTOCFrame(elementID, isTopLevel, isOrdered, childIDs, title) ==
    [ElementID |-> elementID, IsTopLevel |-> isTopLevel, IsOrdered |-> isOrdered,
     ChildIDs |-> childIDs,
     Title |-> IF title # <<>> THEN TitleOf(title) ELSE NilTitle]

----------------------------------------------------------------------------
(* CTOCFrame.WriteTo, one action per w.Write call *)

\* a writer with the two flag bits exchanged
FlagsByteSwapped(f) ==
    (IF f.IsTopLevel THEN 2 ELSE 0) + (IF f.IsOrdered THEN 1 ELSE 0)

\* flags byte: bit 0 = IsTopLevel, bit 1 = IsOrdered
FlagsByte(f) ==
    (IF f.IsTopLevel THEN 1 ELSE 0) + (IF f.IsOrdered THEN 2 ELSE 0)

\* byte(len(cf.ChildIDs)): the conversion keeps the low 8 bits
CountByte(f) == Len(f.ChildIDs) % ByteMod

\* the 4 bytes byte(size>>24), byte(size>>16), byte(size>>8), byte(size)
SizeBytes(size) ==
    <<(size \div 16777216) % ByteMod, (size \div 65536) % ByteMod,
      (size \div 256) % ByteMod, size % ByteMod>>

\* where WriteTo continues after the child ids
AfterChildren(f) == IF f.Title # NilTitle THEN "tit2" ELSE "done"

\* a failing w.Write may have written none or all but one of the bytes
ShortWrites(chunk) == {0} \cup (IF Len(chunk) > 1 THEN {Len(chunk) - 1} ELSE {})

\* written, err = w.Write(chunk); n += written; err == nil
WriteOk(chunk, next) ==
    /\ wbuf' = wbuf \o chunk
    /\ wn' = wn + Len(chunk)
    /\ wpc' = next
    /\ UNCHANGED werr

\* written, err = w.Write(chunk); n += written; if err != nil { return n, err }
WriteErr(chunk) ==
    \E k \in ShortWrites(chunk) :
        /\ wbuf' = wbuf \o SubSeq(chunk, 1, k)
        /\ wn' = wn + k
        /\ wpc' = "ret"
        /\ werr' = TRUE

WriteElementID ==
    /\ wpc = "id"
    /\ LET chunk == cf.ElementID \o <<0>> IN
          WriteOk(chunk, "flags") \/ WriteErr(chunk)
    /\ UNCHANGED <<cf, wk, body, info, term>>
    /\ UNCHANGED <<asmVars, fileVars>>

WriteFlags ==
    /\ wpc = "flags"
    /\ LET chunk == <<FlagsByte(cf)>> IN
          WriteOk(chunk, "count") \/ WriteErr(chunk)
    /\ UNCHANGED <<cf, wk, body, info, term>>
    /\ UNCHANGED <<asmVars, fileVars>>

WriteCount ==
    /\ wpc = "count"
    /\ LET chunk == <<CountByte(cf)>> IN
          \/ WriteOk(chunk, IF cf.ChildIDs = <<>> THEN AfterChildren(cf) ELSE "child")
          \/ WriteErr(chunk)
    /\ UNCHANGED <<cf, wk, body, info, term>>
    /\ UNCHANGED <<asmVars, fileVars>>

WriteChild ==
    /\ wpc = "child"
    /\ LET chunk == cf.ChildIDs[wk] \o <<0>> IN
          \/ /\ WriteOk(chunk, IF wk = Len(cf.ChildIDs) THEN AfterChildren(cf) ELSE "child")
             /\ wk' = wk + 1
          \/ /\ WriteErr(chunk)
             /\ UNCHANGED wk
    /\ UNCHANGED <<cf, body, info, term>>
    /\ UNCHANGED <<asmVars, fileVars>>

WriteTitleID ==
    /\ wpc = "tit2"
    /\ WriteOk(Bytes_TIT2, "size") \/ WriteErr(Bytes_TIT2)
    /\ UNCHANGED <<cf, wk, body, info, term>>
    /\ UNCHANGED <<asmVars, fileVars>>

WriteTitleSize ==
    /\ wpc = "size"
    /\ LET chunk == SizeBytes(TextFrameSize(cf.Title[1])) IN
          WriteOk(chunk, "fflags") \/ WriteErr(chunk)
    /\ UNCHANGED <<cf, wk, body, info, term>>
    /\ UNCHANGED <<asmVars, fileVars>>

WriteTitleFlags ==
    /\ wpc = "fflags"
    /\ WriteOk(<<0, 0>>, "content") \/ WriteErr(<<0, 0>>)
    /\ UNCHANGED <<cf, wk, body, info, term>>
    /\ UNCHANGED <<asmVars, fileVars>>

WriteTitleContent ==
    /\ wpc = "content"
    /\ LET chunk == TextFrameBytes(cf.Title[1]) IN
          WriteOk(chunk, "done") \/ WriteErr(chunk)
    /\ UNCHANGED <<cf, wk, body, info, term>>
    /\ UNCHANGED <<asmVars, fileVars>>

----------------------------------------------------------------------------
(* extractCTOCInfo and its helpers *)

MinOf(S) == CHOOSE x \in S : \A y \in S : x <= y

\* for endPos < len(data) && data[endPos] != 0 { endPos++ }, started at from
ScanToNull(data, from) ==
    LET Z == {e \in from..(Len(data) - 1) : At(data, e) = 0} IN
    IF Z = {} THEN (IF from > Len(data) THEN from ELSE Len(data)) ELSE MinOf(Z)

\* one pass of a loop that steps two bytes past each id (pos = endPos + 2)
ChildStepSkipsTwo(data, count, st) ==
    IF st.stop \/ ~(st.i < count /\ st.pos < Len(data)) THEN [st EXCEPT !.stop = TRUE]
    ELSE LET endPos == ScanToNull(data, st.pos) IN
         IF endPos >= Len(data) THEN [st EXCEPT !.stop = TRUE]
         ELSE [i |-> st.i + 1, pos |-> endPos + 2,
               ids |-> Append(st.ids, Slice(data, st.pos, endPos)), stop |-> FALSE]

\* one pass of the for loop of extractChildIDs: the loop condition, the scan
\* for 0x00, the break when there is none, the append and pos = endPos + 1
ChildStep(data, count, st) ==
    IF st.stop \/ ~(st.i < count /\ st.pos < Len(data)) THEN [st EXCEPT !.stop = TRUE]
    ELSE LET endPos == ScanToNull(data, st.pos) IN
         IF endPos >= Len(data) THEN [st EXCEPT !.stop = TRUE]
         ELSE [i |-> st.i + 1, pos |-> endPos + 1,
               ids |-> Append(st.ids, Slice(data, st.pos, endPos)), stop |-> FALSE]

RECURSIVE ChildPasses(_, _, _, _)
\* n passes of the loop in a row, halving n to keep the evaluation shallow;
\* a loop that has stopped makes no further pass
ChildPasses(data, count, st, n) ==
    IF n = 0 THEN st
    ELSE IF n = 1 THEN ChildStep(data, count, st)
    ELSE LET half == ChildPasses(data, count, st, n \div 2) IN
         IF half.stop THEN half ELSE ChildPasses(data, count, half, n - (n \div 2))

\* the for loop of extractChildIDs, which makes at most count passes; the
\* result is <<ids, pos>>
ChildLoop(data, count, i, pos, ids) ==
    LET st == ChildPasses(data, count,
                          [i |-> i, pos |-> pos, ids |-> ids, stop |-> FALSE], count)
    IN  <<st.ids, st.pos>>

\* a reader that returns a trailing string without terminator as an id too
extractChildIDsKeepsTail(data, count) ==
    LET r == ChildLoop(data, count, 0, 0, <<>>) IN
    IF Len(r[1]) < count /\ r[2] < Len(data)
    THEN <<Append(r[1], Slice(data, r[2], Len(data))), Len(data)>>
    ELSE r

extractChildIDs(data, count) == ChildLoop(data, count, 0, 0, <<>>)

TitleScanLimit == 50

SubFrameHeaderLen == 10

\* extractTitleFromCTOC: the first "TIT2" at an index i with startPos <= i < len(data)-4
extractTitleFromCTOC(data, startPos) ==
    LET M == {i \in startPos..(Len(data) - 5) : Slice(data, i, i + 4) = Bytes_TIT2} IN
    IF M = {} THEN <<>>
    ELSE LET i == MinOf(M)
             hdrEnd == i + SubFrameHeaderLen
         IN  IF hdrEnd >= Len(data) THEN <<>>
             ELSE LET encoding == At(data, hdrEnd)
                      textPos == hdrEnd + 1
                      nul == ScanToNull(data, textPos)
                      endPos == IF encoding = 0 \/ encoding = EncodingUTF8Key
                                THEN nul
                                ELSE IF nul < textPos + TitleScanLimit
                                     THEN nul ELSE textPos + TitleScanLimit
                  IN  Slice(data, textPos, endPos)

ParseError(msg) == [err |-> msg]

MinBodyLen == 3

\* a reader that takes index 0 for "no terminator found"
FindIdEndZeroIsNone(rawData) ==
    LET Z == {i \in 1..(Len(rawData) - 1) : At(rawData, i) = 0 /\ At(rawData, 0) # 0} IN
    IF Z = {} THEN -1 ELSE MinOf(Z)

\* idEnd := -1; for i, b := range rawData { if b == 0 { idEnd = i; break } }
FindIdEnd(rawData) ==
    LET Z == {i \in 0..(Len(rawData) - 1) : At(rawData, i) = 0} IN
    IF Z = {} THEN -1 ELSE MinOf(Z)

extractCTOCInfo(rawData) ==
    IF Len(rawData) < MinBodyLen THEN ParseError("CTOC frame data is incomplete")
    ELSE LET idEnd == FindIdEnd(rawData)
             flagsPos == idEnd + 1
             countPos == flagsPos + 1
         IN  IF idEnd < 0 THEN ParseError("ElementID not found in CTOC frame")
             ELSE IF Len(rawData) <= countPos
                  THEN ParseError("Insufficient data length in CTOC frame")
             ELSE LET flags == At(rawData, flagsPos)
                      entryCount == At(rawData, countPos)
                      childIDs ==
                          extractChildIDs(Slice(rawData, countPos + 1, Len(rawData)),
                                          entryCount)[1]
                  IN  [err |-> NoError,
                       IsTopLevel |-> (flags % 2) # 0,
                       IsOrdered |-> ((flags \div 2) % 2) # 0,
                       ChildIDs |-> childIDs,
                       Title |-> extractTitleFromCTOC(rawData,
                                     countPos + 1 + Len(childIDs) * 2)]

\* the bytes WriteTo produced reach extractCTOCInfo as an UnknownFrame body
ParseWritten ==
    /\ wpc = "done"
    /\ info = Unset
    /\ body' = wbuf
    /\ info' = extractCTOCInfo(wbuf)
    /\ UNCHANGED <<cf, wpc, wk, wbuf, wn, werr, term>>
    /\ UNCHANGED <<asmVars, fileVars>>

\* ReadTOC hands the body of a frame found in a file to extractCTOCInfo
ParseBody ==
    /\ wpc = "read"
    /\ info = Unset
    /\ \E b \in RawBodies :
          /\ body' = b
          /\ info' = extractCTOCInfo(b)
    /\ UNCHANGED <<cf, wpc, wk, wbuf, wn, werr, term>>
    /\ UNCHANGED <<asmVars, fileVars>>

----------------------------------------------------------------------------
(* Strings of the marker source *)

Str_name == <<110, 97, 109, 101>>

Str_start == <<115, 116, 97, 114, 116>>

\* the white space strings.TrimSpace removes (ASCII): \t \n \v \f \r and space
IsSpace(b) == b \in {9, 10, 11, 12, 13, 32}

RECURSIVE TrimLeft(_)
TrimLeft(str) ==
    IF str # <<>> /\ IsSpace(Head(str)) THEN TrimLeft(Tail(str)) ELSE str

RECURSIVE TrimRight(_)
TrimRight(str) ==
    IF str # <<>> /\ IsSpace(str[Len(str)])
    THEN TrimRight(SubSeq(str, 1, Len(str) - 1)) ELSE str

\* strings.TrimSpace
TrimSpace(str) == TrimRight(TrimLeft(str))

\* strings.ToLower on ASCII letters
ToLower(str) == [k \in 1..Len(str) |-> IF str[k] \in 65..90 THEN str[k] + 32 ELSE str[k]]

\* strings.Contains
Contains(str, sub) ==
    \E k \in 0..(Len(str) - Len(sub)) : Slice(str, k, k + Len(sub)) = sub

RECURSIVE Split(_, _)
\* strings.Split(str, sep) for a one-byte separator
Split(str, sep) ==
    LET Z == {k \in 1..Len(str) : str[k] = sep} IN
    IF Z = {} THEN <<str>>
    ELSE LET k == MinOf(Z) IN
         <<SubSeq(str, 1, k - 1)>> \o Split(SubSeq(str, k + 1, Len(str)), sep)

----------------------------------------------------------------------------
(* parseTimeString.  A time.Duration is kept in whole milliseconds and a   *)
(* float64 number of seconds as the exact number of milliseconds it stands *)
(* for; the strings drawn have at most FracDigits fractional digits, so    *)
(* that seconds * float64(time.Second) is that number up to the rounding   *)
(* of float64.                                                             *)

\* fractional digits of a second that a Duration in milliseconds keeps
FracDigits == 3

Colon == 58

IsDigit(b) == b \in 48..57

RECURSIVE DigitsValue(_)
DigitsValue(ds) ==
    IF ds = <<>> THEN 0 ELSE DigitsValue(SubSeq(ds, 1, Len(ds) - 1)) * 10 + (ds[Len(ds)] - 48)

RECURSIVE Pow10(_)
Pow10(n) == IF n = 0 THEN 1 ELSE 10 * Pow10(n - 1)

\* the words strconv.ParseFloat reads as special values, in lower case
Str_nan == <<110, 97, 110>>
Str_inf == <<105, 110, 102>>
Str_infinity == <<105, 110, 102, 105, 110, 105, 116, 121>>

\* a float64: a finite number (kind "fin", ns its value in Duration units),
\* NaN, +Inf or -Inf
Finite(n) == [ok |-> TRUE, kind |-> "fin", ns |-> n]
NonFinite(k) == [ok |-> TRUE, kind |-> k, ns |-> 0]
SyntaxError == [ok |-> FALSE, kind |-> "fin", ns |-> 0]

\* strconv.ParseFloat(str, 64) on [sign] digits [. digits], on NaN and on
\* [sign] Inf and Infinity in any case; any other string is a syntax error
ParseFloat(str) ==
    LET signed == str # <<>> /\ str[1] \in {43, 45}
        neg == signed /\ str[1] = 45
        num == IF signed THEN Tail(str) ELSE str
        dots == {k \in 1..Len(num) : num[k] = 46}
        ip == IF dots = {} THEN num ELSE SubSeq(num, 1, MinOf(dots) - 1)
        fp == IF dots = {} THEN <<>> ELSE SubSeq(num, MinOf(dots) + 1, Len(num))
        ok == /\ Cardinality(dots) <= 1
              /\ Len(ip) + Len(fp) > 0
              /\ Len(fp) <= FracDigits
              /\ \A k \in 1..Len(ip) : IsDigit(ip[k])
              /\ \A k \in 1..Len(fp) : IsDigit(fp[k])
        mag == DigitsValue(ip) * Pow10(FracDigits)
               + DigitsValue(fp) * Pow10(FracDigits - Len(fp))
    IN  IF ok THEN Finite(IF neg THEN 0 - mag ELSE mag)
        ELSE IF ToLower(str) = Str_nan THEN NonFinite("nan")
        ELSE IF ToLower(num) \in {Str_inf, Str_infinity}
             THEN NonFinite(IF neg THEN "ninf" ELSE "pinf")
        ELSE SyntaxError

\* f * k for a constant k > 0
FloatTimes(f, k) == IF f.kind = "fin" THEN Finite(f.ns * k) ELSE f

\* f + g
FloatPlus(f, g) ==
    IF f.kind = "nan" \/ g.kind = "nan" THEN NonFinite("nan")
    ELSE IF f.kind = "fin" THEN (IF g.kind = "fin" THEN Finite(f.ns + g.ns) ELSE g)
    ELSE IF g.kind = "fin" \/ g.kind = f.kind THEN f
    ELSE NonFinite("nan")

\* the ends of the Duration range, kept within the integers of the model:
\* they stand for math.MaxInt64 and math.MinInt64 nanoseconds
MaxDuration == 2147483647
MinDuration == 0 - MaxDuration

\* the builds whose conversion of a float64 out of the int64 range differs
Builds == {"amd64", "arm64"}

\* time.Duration(f * float64(time.Second)): exact for a finite f; for NaN and
\* the infinities the conversion is implementation-specific, the lowest int64
\* on amd64 and a saturating conversion with NaN as 0 on arm64
ToDuration(f) ==
    IF f.kind = "fin" THEN f.ns
    ELSE IF build = "amd64" THEN MinDuration
    ELSE IF f.kind = "nan" THEN 0
    ELSE IF f.kind = "pinf" THEN MaxDuration
    ELSE MinDuration

TimeError(msg) == [err |-> msg, d |-> 0]

\* parseMinutesSeconds: time.Duration((minutes*60 + seconds) * float64(time.Second))
parseMinutesSeconds(parts) ==
    LET minutes == ParseFloat(parts[1])
        seconds == ParseFloat(parts[2])
    IN  IF ~minutes.ok THEN TimeError("Invalid minutes format")
        ELSE IF ~seconds.ok THEN TimeError("Invalid seconds format")
        ELSE [err |-> NoError,
              d |-> ToDuration(FloatPlus(FloatTimes(minutes, 60), seconds))]

\* a sum that counts an hour as 60 seconds
parseHoursAsMinutes(parts) ==
    LET hours == ParseFloat(parts[1])
        minutes == ParseFloat(parts[2])
        seconds == ParseFloat(parts[3])
    IN  IF ~hours.ok THEN TimeError("Invalid hours format")
        ELSE IF ~minutes.ok THEN TimeError("Invalid minutes format")
        ELSE IF ~seconds.ok THEN TimeError("Invalid seconds format")
        ELSE [err |-> NoError,
              d |-> ToDuration(FloatPlus(FloatPlus(FloatTimes(hours, 60),
                                                   FloatTimes(minutes, 60)), seconds))]

\* parseHoursMinutesSeconds
parseHoursMinutesSeconds(parts) ==
    LET hours == ParseFloat(parts[1])
        minutes == ParseFloat(parts[2])
        seconds == ParseFloat(parts[3])
    IN  IF ~hours.ok THEN TimeError("Invalid hours format")
        ELSE IF ~minutes.ok THEN TimeError("Invalid minutes format")
        ELSE IF ~seconds.ok THEN TimeError("Invalid seconds format")
        ELSE [err |-> NoError,
              d |-> ToDuration(FloatPlus(FloatPlus(FloatTimes(hours, 3600),
                                                   FloatTimes(minutes, 60)), seconds))]

\* parseTimeString: [err, d] with d the time.Duration
parseTimeString(timeStr) ==
    LET seconds == ParseFloat(timeStr) IN
    IF seconds.ok THEN [err |-> NoError, d |-> ToDuration(seconds)]
    ELSE IF Contains(timeStr, <<Colon>>)
         THEN LET parts == Split(timeStr, Colon) IN
              IF Len(parts) = 2 THEN parseMinutesSeconds(parts)
              ELSE IF Len(parts) = 3 THEN parseHoursMinutesSeconds(parts)
              ELSE TimeError("Unsupported time format")
         ELSE TimeError("Unsupported time format")

\* Execute is not running
ExecIdle ==
    /\ csvPath = <<>>
    /\ epc = "idle"
    /\ exitCode = -1

\* no time string is being parsed
TimeIdle ==
    /\ build \in Builds
    /\ timeIn = <<>>
    /\ duration = 0
    /\ timeOut = TimeError("unset")
    /\ tpc = "idle"

----------------------------------------------------------------------------
(* ParseAuditionCSV on the rows csv.Reader.ReadAll returned *)

RECURSIVE RowScan(_, _, _, _)
\* for j, cell := range row: the last "name" cell and the last "start" cell win
RowScan(row, j, nameIdx, startTimeIdx) ==
    IF j >= Len(row) THEN <<nameIdx, startTimeIdx>>
    ELSE LET cellLower == ToLower(TrimSpace(At(row, j))) IN
         IF Contains(cellLower, Str_name) THEN RowScan(row, j + 1, j, startTimeIdx)
         ELSE IF Contains(cellLower, Str_start) THEN RowScan(row, j + 1, nameIdx, j)
         ELSE RowScan(row, j + 1, nameIdx, startTimeIdx)

RECURSIVE HeaderLoop(_, _, _, _)
\* for _, row := range records, the indices carried from row to row
HeaderLoop(recs, r, nameIdx, startTimeIdx) ==
    IF r >= Len(recs)
    THEN [err |-> "CSV format error: 'Name' and 'Start' columns not found",
          nameIdx |-> -1, startTimeIdx |-> -1]
    ELSE LET row == At(recs, r) IN
         IF Len(row) > 0
         THEN LET idx == RowScan(row, 0, nameIdx, startTimeIdx) IN
              IF idx[1] >= 0 /\ idx[2] >= 0
              THEN [err |-> NoError, nameIdx |-> idx[1], startTimeIdx |-> idx[2]]
              ELSE HeaderLoop(recs, r + 1, idx[1], idx[2])
         ELSE HeaderLoop(recs, r + 1, nameIdx, startTimeIdx)

findHeaderColumns(recs) == HeaderLoop(recs, 0, -1, -1)

\* the first loop of parseMarkers: one past the first row with a cell that
\* contains "name" or "start", 0 when there is none
DataStart(recs) ==
    LET H == {r \in 0..(Len(recs) - 1) :
                 \E j \in 0..(Len(At(recs, r)) - 1) :
                     LET cellLower == ToLower(TrimSpace(At(At(recs, r), j))) IN
                     Contains(cellLower, Str_name) \/ Contains(cellLower, Str_start)}
    IN  IF H = {} THEN 0 ELSE MinOf(H) + 1

Max2(a, b) == IF a > b THEN a ELSE b

\* a parser that keeps the rows without a name
KeepsBlankName(name) == FALSE

\* if name == "" { continue }
SkipsBlankName(name) == name = <<>>

RECURSIVE MarkerLoop(_, _, _, _, _)
\* for _, row := range records[dataStart:]
MarkerLoop(recs, r, nameIdx, startTimeIdx, acc) ==
    IF r >= Len(recs) THEN [err |-> NoError, markers |-> acc]
    ELSE LET row == At(recs, r) IN
         IF Len(row) <= Max2(nameIdx, startTimeIdx)
         THEN MarkerLoop(recs, r + 1, nameIdx, startTimeIdx, acc)
         ELSE LET name == TrimSpace(At(row, nameIdx)) IN
              IF SkipsBlankName(name)
              THEN MarkerLoop(recs, r + 1, nameIdx, startTimeIdx, acc)
              ELSE LET startTimeStr == TrimSpace(At(row, startTimeIdx))
                       startTime == parseTimeString(startTimeStr)
                   IN
                   IF startTime.err # NoError
                   THEN [err |-> "Failed to parse start time", what |-> startTimeStr,
                         markers |-> <<>>]
                   ELSE MarkerLoop(recs, r + 1, nameIdx, startTimeIdx,
                                   Append(acc, [Name |-> name, StartTime |-> startTime.d]))

parseMarkers(recs, nameIdx, startTimeIdx) ==
    MarkerLoop(recs, DataStart(recs), nameIdx, startTimeIdx, <<>>)

\* a parser that looks for the header in a table of one row too
ParseAuditionCSVOneRow(recs) ==
    IF Len(recs) < 1 THEN [err |-> NoError, markers |-> <<>>]
    ELSE LET h == findHeaderColumns(recs) IN
         IF h.err # NoError THEN [err |-> h.err, markers |-> <<>>]
         ELSE parseMarkers(recs, h.nameIdx, h.startTimeIdx)

ParseAuditionCSV(recs) ==
    IF Len(recs) <= 1 THEN [err |-> NoError, markers |-> <<>>]
    ELSE LET h == findHeaderColumns(recs) IN
         IF h.err # NoError THEN [err |-> h.err, markers |-> <<>>]
         ELSE parseMarkers(recs, h.nameIdx, h.startTimeIdx)

----------------------------------------------------------------------------
(* id3v2.Tag as the frame sequences it keeps per frame id, and             *)
(* addChapterFrames                                                        *)

\* tag.DeleteFrames(id)
DeleteFrames(t, id) == [t EXCEPT ![id] = <<>>]

\* tag.AddFrame(id, f): a frame with the UniqueIdentifier of f is replaced,
\* any other frame is appended to the sequence of id
AddFrame(t, id, f) ==
    LET fs == t[id]
        same == {k \in 1..Len(fs) : fs[k].uid = f.uid}
    IN  IF same = {} THEN [t EXCEPT ![id] = Append(fs, f)]
        ELSE [t EXCEPT ![id] = [fs EXCEPT ![MinOf(same)] = f]]

\* id3v2.IgnoredOffset (0xFFFFFFFF)
IgnoredOffset == "IgnoredOffset"

\* createChapterFrame; ChapterFrame.UniqueIdentifier is its ElementID
createChapterFrame(elementID, title, startTime) ==
    [uid |-> elementID, ElementID |-> elementID, StartTime |-> startTime,
     EndTime |-> IgnoredOffset, StartOffset |-> IgnoredOffset,
     EndOffset |-> IgnoredOffset, Title |-> TitleOf(title)]

\* CTOCFrame.UniqueIdentifier returns "CTOC"
CTOCFramer(f) == [uid |-> "CTOC", frame |-> f]

\* an element id numbered by the count of chapters kept so far
ElementIDByKept(i, kept) == Bytes_chp \o Sprintf_d(Len(kept))

\* elementID := fmt.Sprintf("chp%d", i), i the index in the marker list
ElementIDAt(i, kept) == ElementIDOf(i)

RECURSIVE ChapterLoop(_, _, _, _)
\* for i, marker := range markers; the result is <<tag, chapterElementIDs>>
ChapterLoop(t, ms, i, ids) ==
    IF i >= Len(ms) THEN <<t, ids>>
    ELSE LET marker == At(ms, i) IN
         IF TrimSpace(marker.Name) = <<>> THEN ChapterLoop(t, ms, i + 1, ids)
         ELSE LET elementID == ElementIDAt(i, ids)
                  chapterFrame == createChapterFrame(elementID, marker.Name,
                                                     marker.StartTime)
              IN  ChapterLoop(AddFrame(t, "CHAP", chapterFrame), ms, i + 1,
                              Append(ids, elementID))

\* an assembly that deletes the old TOC frames but not the old chapter frames
DeleteOnlyCTOC(t) == DeleteFrames(t, "CTOC")

\* an assembly that forgets to delete the frames of an earlier run
KeepOld(t) == t

\* the two tag.DeleteFrames calls that open addChapterFrames
DeleteOld(t) == DeleteFrames(DeleteFrames(t, "CHAP"), "CTOC")

\* an assembly that looks at the marker list before it deletes anything
addChapterFramesEmptyFirst(t, ms) ==
    IF Len(ms) = 0 THEN t
    ELSE LET r == ChapterLoop(DeleteOld(t), ms, 0, <<>>)
             chapterElementIDs == r[2]
         IN  IF Len(chapterElementIDs) = 0 THEN r[1]
             ELSE AddFrame(r[1], "CTOC",
                           CTOCFramer(createCTOCFrame(Bytes_toc, TRUE, TRUE,
                                                      chapterElementIDs,
                                                      Bytes_tocTitle)))

addChapterFrames(t, ms) ==
    LET cleared == DeleteOld(t) IN
    IF Len(ms) = 0 THEN cleared
    ELSE LET r == ChapterLoop(cleared, ms, 0, <<>>)
             chapterElementIDs == r[2]
         IN  IF Len(chapterElementIDs) = 0 THEN r[1]
             ELSE AddFrame(r[1], "CTOC",
                           CTOCFramer(createCTOCFrame(Bytes_toc, TRUE, TRUE,
                                                      chapterElementIDs,
                                                      Bytes_tocTitle)))

----------------------------------------------------------------------------
(* Paths and files.  A path is the sequence of the pieces of its string,   *)
(* an extension being a piece that starts with a dot; a file content is    *)
(* its audio data, the frames of its tag and whether it was written whole. *)

EmptyTag == [CHAP |-> <<>>, CTOC |-> <<>>, other |-> <<>>]

NoPath == <<>>

ExtPieces == {".mp3", ".MP3", ".tmp", ".wav", ".csv"}

\* filepath.Ext
Ext(path) ==
    IF path # <<>> /\ path[Len(path)] \in ExtPieces THEN <<path[Len(path)]>> ELSE <<>>

\* generateOutputPath
generateOutputPath(inputPath) ==
    LET ext == Ext(inputPath)
        baseName == SubSeq(inputPath, 1, Len(inputPath) - Len(ext))
    IN  baseName \o <<"_with_chapters">> \o ext

\* tempPath := outputPath + ".tmp"
TempPath(outPath) == outPath \o <<".tmp">>

Absent == [st |-> "absent", data |-> "", frames |-> EmptyTag]

\* os.Create: a new or truncated file
EmptyFile == [st |-> "whole", data |-> "", frames |-> EmptyTag]

\* what a failed io.Copy or a failed tag.Save may leave in the file
PartialFile == [st |-> "partial", data |-> "", frames |-> EmptyTag]

\* fileExists
fileExists(files, path) == files[path] # Absent

FileIdle ==
    /\ mp3Path = NoPath
    /\ outputPath = NoPath
    /\ out = NoPath
    /\ disk = <<>>
    /\ disk0 = <<>>
    /\ fpc = "idle"
    /\ ferr = NoError
    /\ tagOpen = FALSE
    /\ tmpCreated = FALSE
    /\ confirmed = FALSE
    /\ response = <<>>
    /\ chapters = <<>>
    /\ TimeIdle
    /\ ExecIdle

----------------------------------------------------------------------------
(* The codec specification: a frame is written and read back, or a raw     *)
(* body is read                                                            *)

Frames ==
    {createCTOCFrame(e, tl, od, ch, t) :
        e \in FrameElementIDs, tl \in BOOLEAN, od \in BOOLEAN,
        ch \in ChildLists, t \in FrameTitles}
    \cup {createCTOCFrame(Bytes_toc, TRUE, TRUE, FullChildList, Bytes_tocTitle)}

AsmIdle ==
    /\ records = <<>>
    /\ parsed = Unset
    /\ markers = <<>>
    /\ tag = EmptyTag
    /\ tag0 = EmptyTag
    /\ calls = 0
    /\ apc = "idle"

InitCodec ==
    /\ term \in TerminationBytes
    /\ \/ cf \in Frames /\ wpc = "id"
       \/ cf = createCTOCFrame(Bytes_toc, TRUE, TRUE, <<>>, <<>>) /\ wpc = "read"
    /\ wk = 1
    /\ wbuf = <<>>
    /\ wn = 0
    /\ werr = FALSE
    /\ body = <<>>
    /\ info = Unset
    /\ AsmIdle
    /\ FileIdle

NextCodec ==
    \/ WriteElementID
    \/ WriteFlags
    \/ WriteCount
    \/ WriteChild
    \/ WriteTitleID
    \/ WriteTitleSize
    \/ WriteTitleFlags
    \/ WriteTitleContent
    \/ ParseWritten
    \/ ParseBody

SpecCodec == InitCodec /\ [][NextCodec]_vars

----------------------------------------------------------------------------
(* The assembly specification: markers, parsed from a marker table or      *)
(* passed by a caller, are written into a tag by addChapterFrames, once    *)
(* or repeatedly                                                           *)

\* most data rows of a marker table
MaxRows == 4

\* most addChapterFrames calls on one tag
MaxCalls == 3

\* time.Second in Duration units (milliseconds)
Second == 1000

HeaderRow == <<<<78, 97, 109, 101>>, <<83, 116, 97, 114, 116>>>>

\* rows "A" at 0, "B" at 1:30.500, and a row whose name is one space
RowKinds == {<<<<65>>, <<48>>>>, <<<<66>>, <<49, 58, 51, 48, 46, 53, 48, 48>>>>, <<<<32>>, <<50>>>>}

Tables == {<<HeaderRow>> \o rows : rows \in SeqsUpTo(RowKinds, MaxRows)}

\* markers a caller of AddChapters may pass: names "A", " " and "B"
MarkerPool ==
    {[Name |-> <<65>>, StartTime |-> 0],
     [Name |-> <<32>>, StartTime |-> Second],
     [Name |-> <<66>>, StartTime |-> 2 * Second]}

MarkerLists == SeqsUpTo(MarkerPool, MaxMarkers)

OldChapter(i) == createChapterFrame(ElementIDOf(i), <<79, 108, 100>>, i * Second)

\* a TOC frame parsed from a file is an id3v2.UnknownFrame, not a CTOCFrame
OldTOC(n, ids) ==
    [uid |-> n,
     frame |-> createCTOCFrame(Bytes_toc, TRUE, TRUE, ids, <<79, 108, 100>>)]

OtherFrame == [uid |-> "TIT2", Text |-> <<83>>]

\* tags before the call: empty, without chapters, with the frames of an
\* earlier run, and with foreign chapter and TOC frames
PriorTags ==
    {EmptyTag,
     [CHAP |-> <<>>, CTOC |-> <<>>, other |-> <<OtherFrame>>],
     [CHAP |-> <<OldChapter(0), OldChapter(1)>>,
      CTOC |-> <<OldTOC("unknown1", <<ElementIDOf(0), ElementIDOf(1)>>)>>,
      other |-> <<OtherFrame>>],
     [CHAP |-> <<OldChapter(5)>>,
      CTOC |-> <<OldTOC("unknown1", <<ElementIDOf(5)>>), OldTOC("unknown2", <<>>)>>,
      other |-> <<>>]}

CodecIdle ==
    /\ cf = createCTOCFrame(Bytes_toc, TRUE, TRUE, <<>>, <<>>)
    /\ wpc = "idle"
    /\ wk = 1
    /\ wbuf = <<>>
    /\ wn = 0
    /\ werr = FALSE
    /\ body = <<>>
    /\ info = Unset
    /\ term = <<>>

InitAsm ==
    /\ tag0 \in PriorTags
    /\ tag = tag0
    /\ calls = 0
    /\ parsed = Unset
    /\ \/ records \in Tables /\ markers = <<>> /\ apc = "start"
       \/ records = <<>> /\ markers \in MarkerLists /\ apc = "ready"
    /\ CodecIdle
    /\ FileIdle

\* Execute: csvparser.ParseAuditionCSV, os.Exit(1) on error
ParseCSV ==
    /\ apc = "start"
    /\ LET r == ParseAuditionCSV(records) IN
          /\ parsed' = r
          /\ IF r.err = NoError
             THEN markers' = r.markers /\ apc' = "ready"
             ELSE markers' = markers /\ apc' = "exit"
    /\ UNCHANGED <<records, tag, tag0, calls>>
    /\ UNCHANGED <<codecVars, fileVars>>

\* one run of addChapterFrames on the tag
AddFrames ==
    /\ apc = "ready"
    /\ calls < MaxCalls
    /\ tag' = addChapterFrames(tag, markers)
    /\ calls' = calls + 1
    /\ UNCHANGED <<records, parsed, markers, tag0, apc>>
    /\ UNCHANGED <<codecVars, fileVars>>

NextAsm == ParseCSV \/ AddFrames

SpecAsm == InitAsm /\ [][NextAsm]_vars

----------------------------------------------------------------------------
(* The file specification: one call of AddChapters, one action per file    *)
(* system or tag operation, each of which may fail                         *)

InputPaths == {<<"a", ".mp3">>, <<"b", ".mp3", ".tmp">>}

OutputArgs == {NoPath, <<"a", ".mp3">>, <<"b", ".mp3">>}

\* AddChapters: outputPath, or the generated path when none is given
ResolveOutput(inPath, outArg) ==
    IF outArg = NoPath THEN generateOutputPath(inPath) ELSE outArg

AllPaths ==
    LET outs == {ResolveOutput(i, o) : i \in InputPaths, o \in OutputArgs} IN
    InputPaths \cup outs \cup {TempPath(o) : o \in outs}

InputFile(frames) == [st |-> "whole", data |-> "input", frames |-> frames]

OtherFile(what) == [st |-> "whole", data |-> what, frames |-> EmptyTag]

FileMarkerLists ==
    {<<>>,
     <<[Name |-> <<65>>, StartTime |-> 0]>>,
     <<[Name |-> <<65>>, StartTime |-> 0], [Name |-> <<32>>, StartTime |-> Second],
       [Name |-> <<66>>, StartTime |-> 2 * Second]>>}

InputTags ==
    {EmptyTag,
     [CHAP |-> <<OldChapter(0)>>, CTOC |-> <<OldTOC("unknown1", <<ElementIDOf(0)>>)>>,
      other |-> <<OtherFrame>>]}

\* the lines a user may type at the prompt: "y", "YES", " Yes ", "n", ""
Answers == {<<121, 10>>, <<89, 69, 83, 10>>, <<32, 89, 101, 115, 32, 10>>, <<110, 10>>, <<10>>}

\* a prompt that takes every answer but "n" for consent
AcceptsAllButNo(line) == TrimSpace(ToLower(line)) # <<110>>

\* confirmOperation on the line read: nil exactly for y and yes
Accepts(line) ==
    LET r == TrimSpace(ToLower(line)) IN
    r = <<121>> \/ r = <<121, 101, 115>>

InitFile ==
    /\ mp3Path \in InputPaths
    /\ outputPath \in OutputArgs
    /\ markers \in FileMarkerLists
    /\ \E frames \in InputTags, preOut \in BOOLEAN, preTmp \in BOOLEAN :
          disk0 = [p \in AllPaths |->
                     LET o == ResolveOutput(mp3Path, outputPath) IN
                     IF p = mp3Path THEN InputFile(frames)
                     ELSE IF p = o /\ preOut THEN OtherFile("old output")
                     ELSE IF p = TempPath(o) /\ preTmp THEN OtherFile("old temp")
                     ELSE Absent]
    /\ disk = disk0
    /\ out = NoPath
    /\ fpc = "call"
    /\ ferr = NoError
    /\ tagOpen = FALSE
    /\ tmpCreated = FALSE
    /\ confirmed = FALSE
    /\ response = <<>>
    /\ chapters = <<>>
    /\ TimeIdle
    /\ ExecIdle
    /\ records = <<>>
    /\ parsed = Unset
    /\ tag = EmptyTag
    /\ tag0 = EmptyTag
    /\ calls = 0
    /\ apc = "idle"
    /\ CodecIdle

\* return err
Return(err) ==
    /\ ferr' = err
    /\ fpc' = "ret"

\* AddChapters: resolve the output path and choose the way of writing
Resolve ==
    /\ fpc = "call"
    /\ out' = ResolveOutput(mp3Path, outputPath)
    /\ fpc' = IF mp3Path = out' THEN "ip_confirm" ELSE "nf_mkdir"
    /\ UNCHANGED <<mp3Path, outputPath, disk, disk0, ferr, tagOpen, tmpCreated, confirmed, response, chapters, timeVars, execVars>>
    /\ UNCHANGED <<codecVars, asmVars>>

\* confirmOperation: nil, "Error reading input" or "Operation cancelled by user"
Confirm(next) ==
    \/ /\ Return("Error reading input")
       /\ UNCHANGED <<confirmed, response, chapters, timeVars, execVars>>
    \/ \E line \in Answers :
          /\ response' = line
          /\ IF Accepts(line)
             THEN fpc' = next /\ confirmed' = TRUE /\ UNCHANGED ferr
             ELSE Return("Operation cancelled by user") /\ UNCHANGED confirmed

\* addChaptersInPlace: confirm before modifying the original file
ConfirmInPlace ==
    /\ fpc = "ip_confirm"
    /\ Confirm("ip_open")
    /\ UNCHANGED <<mp3Path, outputPath, out, disk, disk0, tagOpen, tmpCreated, chapters, timeVars, execVars>>
    /\ UNCHANGED <<codecVars, asmVars>>

\* id3v2.Open(path, Parse: true): the frames of the file, or an error
OpenTag(path, next, failed, msg) ==
    \/ /\ disk[path] # Absent
       /\ tag' = disk[path].frames
       /\ tagOpen' = TRUE
       /\ fpc' = next
       /\ UNCHANGED ferr
    \/ /\ ferr' = msg
       /\ fpc' = failed
       /\ UNCHANGED <<tag, tagOpen>>

OpenInPlace ==
    /\ fpc = "ip_open"
    /\ OpenTag(mp3Path, "ip_add", "ret", "Cannot open MP3 file")
    /\ UNCHANGED <<mp3Path, outputPath, out, disk, disk0, tmpCreated, confirmed, response, chapters, timeVars, execVars>>
    /\ UNCHANGED <<codecVars, records, parsed, markers, tag0, calls, apc>>

AssembleInPlace ==
    /\ fpc = "ip_add"
    /\ tag' = addChapterFrames(tag, markers)
    /\ fpc' = "ip_save"
    /\ UNCHANGED fileVarsButPc
    /\ UNCHANGED <<codecVars, records, parsed, markers, tag0, calls, apc>>

\* a return path that leaves the tag open
CloseTagForgotten == UNCHANGED tagOpen

\* tag.Close()
CloseTag == tagOpen' = FALSE

\* tag.Save() then tag.Close(): the file takes the frames of the tag, or the
\* save fails and leaves the file as it was or partly written
SaveAndClose(path, next, failed, msg) ==
    /\ CloseTag
    /\ \/ /\ disk' = [disk EXCEPT ![path] = [@ EXCEPT !.frames = tag]]
          /\ fpc' = next
          /\ UNCHANGED ferr
       \/ /\ disk' \in {disk, [disk EXCEPT ![path] = PartialFile]}
          /\ ferr' = msg
          /\ fpc' = failed

SaveInPlace ==
    /\ fpc = "ip_save"
    /\ SaveAndClose(mp3Path, "ret", "ret", "save failed")
    /\ UNCHANGED <<mp3Path, outputPath, out, disk0, tmpCreated, confirmed, response, chapters, timeVars, execVars>>
    /\ UNCHANGED <<codecVars, asmVars>>

\* os.MkdirAll(filepath.Dir(outputPath), 0755)
MakeOutputDir ==
    /\ fpc = "nf_mkdir"
    /\ \/ fpc' = "nf_exists" /\ UNCHANGED ferr
       \/ Return("Failed to create output directory")
    /\ UNCHANGED <<mp3Path, outputPath, out, disk, disk0, tagOpen, tmpCreated, confirmed, response, chapters, timeVars, execVars>>
    /\ UNCHANGED <<codecVars, asmVars>>

\* if fileExists(outputPath) { confirmOperation(...) }
ConfirmOverwrite ==
    /\ fpc = "nf_exists"
    /\ IF fileExists(disk, out)
       THEN Confirm("nf_copy_open")
       ELSE fpc' = "nf_copy_open" /\ UNCHANGED <<ferr, confirmed, response, chapters, timeVars, execVars>>
    /\ UNCHANGED <<mp3Path, outputPath, out, disk, disk0, tagOpen, tmpCreated, chapters, timeVars, execVars>>
    /\ UNCHANGED <<codecVars, asmVars>>

\* copyFile: os.Open(src)
CopyOpenInput ==
    /\ fpc = "nf_copy_open"
    /\ \/ fileExists(disk, mp3Path) /\ fpc' = "nf_copy_create" /\ UNCHANGED ferr
       \/ Return("Cannot open input file")
    /\ UNCHANGED <<mp3Path, outputPath, out, disk, disk0, tagOpen, tmpCreated, confirmed, response, chapters, timeVars, execVars>>
    /\ UNCHANGED <<codecVars, asmVars>>

\* copyFile: os.Create(dst) creates the file or truncates the one there
CopyCreateTemp ==
    /\ fpc = "nf_copy_create"
    /\ \/ /\ disk' = [disk EXCEPT ![TempPath(out)] = EmptyFile]
          /\ tmpCreated' = TRUE
          /\ fpc' = "nf_copy_io"
          /\ UNCHANGED ferr
       \/ /\ Return("Failed to create temporary file")
          /\ UNCHANGED <<disk, tmpCreated>>
    /\ UNCHANGED <<mp3Path, outputPath, out, disk0, tagOpen, confirmed, response, chapters, timeVars, execVars>>
    /\ UNCHANGED <<codecVars, asmVars>>

\* copyFile: io.Copy(outputFile, inputFile); an error returns from
\* addChaptersToNewFile before its deferred clean-up is set up
CopyContent ==
    /\ fpc = "nf_copy_io"
    /\ \/ /\ disk' = [disk EXCEPT ![TempPath(out)] = disk[mp3Path]]
          /\ fpc' = "nf_open"
          /\ UNCHANGED ferr
       \/ /\ disk' = [disk EXCEPT ![TempPath(out)] = PartialFile]
          /\ Return("Failed to copy file")
    /\ UNCHANGED <<mp3Path, outputPath, out, disk0, tagOpen, tmpCreated, confirmed, response, chapters, timeVars, execVars>>
    /\ UNCHANGED <<codecVars, asmVars>>

OpenTemp ==
    /\ fpc = "nf_open"
    /\ OpenTag(TempPath(out), "nf_add", "nf_cleanup", "Cannot open temporary file")
    /\ UNCHANGED <<mp3Path, outputPath, out, disk, disk0, tmpCreated, confirmed, response, chapters, timeVars, execVars>>
    /\ UNCHANGED <<codecVars, records, parsed, markers, tag0, calls, apc>>

AssembleTemp ==
    /\ fpc = "nf_add"
    /\ tag' = addChapterFrames(tag, markers)
    /\ fpc' = "nf_save"
    /\ UNCHANGED fileVarsButPc
    /\ UNCHANGED <<codecVars, records, parsed, markers, tag0, calls, apc>>

SaveTemp ==
    /\ fpc = "nf_save"
    /\ SaveAndClose(TempPath(out), "nf_rename", "nf_cleanup", "Failed to save tags")
    /\ UNCHANGED <<mp3Path, outputPath, out, disk0, tmpCreated, confirmed, response, chapters, timeVars, execVars>>
    /\ UNCHANGED <<codecVars, asmVars>>

\* os.Rename(tempPath, outputPath)
RenameTemp ==
    /\ fpc = "nf_rename"
    /\ \/ /\ disk' = [disk EXCEPT ![out] = disk[TempPath(out)], ![TempPath(out)] = Absent]
          /\ UNCHANGED ferr
       \/ /\ ferr' = "Failed to create final file"
          /\ UNCHANGED disk
    /\ fpc' = "nf_cleanup"
    /\ UNCHANGED <<mp3Path, outputPath, out, disk0, tagOpen, tmpCreated, confirmed, response, chapters, timeVars, execVars>>
    /\ UNCHANGED <<codecVars, asmVars>>

\* the deferred func: if fileExists(tempPath) { os.Remove(tempPath) }
Cleanup ==
    /\ fpc = "nf_cleanup"
    /\ disk' = IF fileExists(disk, TempPath(out))
               THEN [disk EXCEPT ![TempPath(out)] = Absent] ELSE disk
    /\ fpc' = "ret"
    /\ UNCHANGED <<mp3Path, outputPath, out, disk0, ferr, tagOpen, tmpCreated, confirmed, response, chapters, timeVars, execVars>>
    /\ UNCHANGED <<codecVars, asmVars>>

NextFile ==
    \/ Resolve
    \/ ConfirmInPlace
    \/ OpenInPlace
    \/ AssembleInPlace
    \/ SaveInPlace
    \/ MakeOutputDir
    \/ ConfirmOverwrite
    \/ CopyOpenInput
    \/ CopyCreateTemp
    \/ CopyContent
    \/ OpenTemp
    \/ AssembleTemp
    \/ SaveTemp
    \/ RenameTemp
    \/ Cleanup

SpecFile == InitFile /\ [][NextFile]_vars

----------------------------------------------------------------------------
(* The read specification: ReadChapters and then ReadTOC on one file       *)

\* most chapter frames in a tag that is read
MaxChapters == 3

\* most TOC frames in a tag that is read
MaxTOCs == 2

\* chapter frames as id3v2 parses them: two with the same start time and one
\* without a title sub-frame
ChapterPool ==
    {createChapterFrame(ElementIDOf(0), <<65>>, 2 * Second),
     createChapterFrame(ElementIDOf(1), <<66>>, 0),
     createChapterFrame(ElementIDOf(2), <<67>>, 2 * Second),
     [createChapterFrame(ElementIDOf(3), <<>>, Second) EXCEPT !.Title = NilTitle]}

\* a TOC frame of a file is parsed as an id3v2.UnknownFrame holding the body
UnknownFrame(b) == [uid |-> "unknown", Body |-> b]

\* bodies of TOC frames: two well formed, one without 0x00, one too short
TOCBodies ==
    {Bytes_toc \o <<0, 3, 1>> \o ElementIDOf(0) \o <<0>>,
     <<84, 0, 0, 0>>,
     <<99, 99, 99>>,
     <<0>>}

\* the sequences of at most n different members of S
DistinctSeqs(S, n) ==
    {q \in SeqsUpTo(S, n) : \A i, j \in 1..Len(q) : i # j => q[i] # q[j]}

ReadTags ==
    {[CHAP |-> c, CTOC |-> t, other |-> <<OtherFrame>>] :
        c \in DistinctSeqs(ChapterPool, MaxChapters),
        t \in {[k \in 1..Len(q) |-> UnknownFrame(q[k])] : q \in SeqsUpTo(TOCBodies, MaxTOCs)}}

\* frame.(id3v2.ChapterFrame)
IsChapterFrame(frame) == "StartTime" \in DOMAIN frame

\* the Chapter appended for one chapter frame: title "" when Title is nil
ChapterOf(frame) ==
    [Title |-> IF frame.Title # NilTitle THEN frame.Title[1] ELSE <<>>,
     StartTime |-> frame.StartTime]

\* for _, frame := range tag.GetFrames("CHAP")
CollectChapters(frames) ==
    LET kept == SelectSeq(frames, IsChapterFrame) IN
    [k \in 1..Len(kept) |-> ChapterOf(kept[k])]

\* no element is followed by one with a smaller start time
SortedByStart(list) ==
    \A k \in 1..(Len(list) - 1) : ~(list[k + 1].StartTime < list[k].StartTime)

Reorderings(list) ==
    {[k \in 1..Len(list) |-> list[p[k]]] : p \in Permutations(1..Len(list))}

\* a sort that leaves the list as collected
SortSliceSkipped(list) == {list}

\* sort.Slice with StartTime <: not stable, so any sorted order of the list
SortSlice(list) == {q \in Reorderings(list) : SortedByStart(q)}

\* extractCTOCInfo on a frame: only an UnknownFrame has a body to read
extractCTOCInfoOf(frame) ==
    IF "Body" \notin DOMAIN frame THEN ParseError("Cannot parse CTOC frame")
    ELSE extractCTOCInfo(frame.Body)

RECURSIVE FirstReadable(_)
\* a reader that passes over malformed frames and takes the first it can read
FirstReadable(ctocFrames) ==
    IF Len(ctocFrames) = 0 THEN ParseError("No CTOC frame found")
    ELSE LET r == extractCTOCInfoOf(ctocFrames[1]) IN
         IF r.err # NoError THEN FirstReadable(Tail(ctocFrames)) ELSE r

\* ReadTOC after the open: the first CTOC frame or "No CTOC frame found"
FirstTOC(ctocFrames) ==
    IF Len(ctocFrames) = 0 THEN ParseError("No CTOC frame found")
    ELSE extractCTOCInfoOf(ctocFrames[1])

ReadPath == <<"a", ".mp3">>

InitRead ==
    /\ mp3Path = ReadPath
    /\ outputPath = NoPath
    /\ out = NoPath
    /\ \E t \in ReadTags : disk0 = [p \in {ReadPath} |-> InputFile(t)]
    /\ disk = disk0
    /\ fpc = "rc_open"
    /\ ferr = NoError
    /\ tagOpen = FALSE
    /\ tmpCreated = FALSE
    /\ confirmed = FALSE
    /\ response = <<>>
    /\ chapters = <<>>
    /\ TimeIdle
    /\ ExecIdle
    /\ AsmIdle
    /\ CodecIdle

\* ReadChapters: id3v2.Open
OpenForChapters ==
    /\ fpc = "rc_open"
    /\ OpenTag(mp3Path, "rc_collect", "rt_open", "Cannot open MP3 file")
    /\ UNCHANGED <<mp3Path, outputPath, out, disk, disk0, tmpCreated, confirmed, response, chapters, timeVars, execVars>>
    /\ UNCHANGED <<codecVars, records, parsed, markers, tag0, calls, apc>>

\* ReadChapters: collect, sort, return; the deferred tag.Close() runs
ReturnChapters ==
    /\ fpc = "rc_collect"
    /\ chapters' \in SortSlice(CollectChapters(tag.CHAP))
    /\ CloseTag
    /\ fpc' = "rt_open"
    /\ UNCHANGED <<mp3Path, outputPath, out, disk, disk0, ferr, tmpCreated, confirmed, response, timeVars, execVars>>
    /\ UNCHANGED <<codecVars, asmVars>>

\* ReadTOC: id3v2.Open
OpenForTOC ==
    /\ fpc = "rt_open"
    /\ \/ /\ tag' = disk[mp3Path].frames
          /\ tagOpen' = TRUE
          /\ fpc' = "rt_first"
          /\ UNCHANGED info
       \/ /\ info' = ParseError("Cannot open MP3 file")
          /\ fpc' = "ret"
          /\ UNCHANGED <<tag, tagOpen>>
    /\ UNCHANGED <<mp3Path, outputPath, out, disk, disk0, ferr, tmpCreated, confirmed, response, chapters, timeVars, execVars>>
    /\ UNCHANGED <<cf, wpc, wk, wbuf, wn, werr, body, term>>
    /\ UNCHANGED <<records, parsed, markers, tag0, calls, apc>>

\* ReadTOC: the frames, the first of them, return; the deferred tag.Close() runs
ReturnTOC ==
    /\ fpc = "rt_first"
    /\ info' = FirstTOC(tag.CTOC)
    /\ CloseTag
    /\ fpc' = "ret"
    /\ UNCHANGED <<mp3Path, outputPath, out, disk, disk0, ferr, tmpCreated, confirmed, response, chapters, timeVars, execVars>>
    /\ UNCHANGED <<cf, wpc, wk, wbuf, wn, werr, body, term>>
    /\ UNCHANGED asmVars

NextRead ==
    \/ OpenForChapters
    \/ ReturnChapters
    \/ OpenForTOC
    \/ ReturnTOC

SpecRead == InitRead /\ [][NextRead]_vars

\* the operations that open a tag: a call of AddChapters, or the two reads
SpecTags == (InitFile \/ InitRead) /\ [][NextFile \/ NextRead]_vars

----------------------------------------------------------------------------
(* The Execute specification: the command line run from its arguments to  *)
(* its exit status, with AddChapters running as in the file specification  *)

ExecCSVArgs == {NoPath, <<"m", ".csv">>}

ExecInputArgs == {NoPath, <<"a", ".mp3">>, <<"a", ".wav">>}

ExecOutputArgs == {NoPath, <<"a", ".mp3">>, <<"b", ".MP3">>, <<"b", ".wav">>}

\* determineOutputPath
determineOutputPath(inputPath, outArg) ==
    IF outArg # NoPath THEN outArg
    ELSE LET ext == Ext(inputPath)
             baseName == SubSeq(inputPath, 1, Len(inputPath) - Len(ext))
         IN  baseName \o <<"_with_chapters">> \o ext

ExecPaths ==
    LET ins == ExecInputArgs \ {NoPath}
        outs == {ResolveOutput(i, o) : i \in ins, o \in ExecOutputArgs}
    IN  (ExecCSVArgs \ {NoPath}) \cup ins \cup outs \cup {TempPath(o) : o \in outs}

\* marker tables: two markers, a bad start time, no header row, no rows
ExecTables ==
    {<<HeaderRow, <<<<65>>, <<48>>>>, <<<<66>>, <<49, 58, 51, 48, 46, 53, 48, 48>>>>>>,
     <<HeaderRow, <<<<65>>, <<48>>>>, <<<<67>>, <<120>>>>>>,
     <<<<<<65>>, <<48>>>>, <<<<65>>, <<48>>>>>>,
     <<>>}

\* strings.EqualFold(filepath.Ext(path), ".mp3")
HasMP3Ext(path) == Ext(path) \in {<<".mp3">>, <<".MP3">>}

\* a check that lets every output path through
OutputExtUnchecked(outArg) == TRUE

\* config.OutputMP3 != "" && !EqualFold(Ext, ".mp3") is the failure
OutputExtOk(outArg) == outArg = NoPath \/ HasMP3Ext(outArg)

\* parseAndValidateArgs returns a nil error
ArgsAccepted(files, csv, input, output) ==
    /\ ~(csv = NoPath \/ input = NoPath)
    /\ fileExists(files, csv)
    /\ fileExists(files, input)
    /\ HasMP3Ext(input)
    /\ OutputExtOk(output)

\* os.Exit(code)
Exit(code) ==
    /\ epc' = "exit"
    /\ exitCode' = code

RECURSIVE ConcatIDs(_, _)
\* the child ids from index k on, each followed by 0x00
ConcatIDs(ids, k) ==
    IF k > Len(ids) THEN <<>> ELSE ids[k] \o <<0>> \o ConcatIDs(ids, k + 1)

\* the bytes a CTOCFrame.WriteTo without a write error hands to the writer
WrittenBody(f) ==
    f.ElementID \o <<0>> \o <<FlagsByte(f)>> \o <<CountByte(f)>>
    \o ConcatIDs(f.ChildIDs, 1)
    \o (IF f.Title # NilTitle
        THEN Bytes_TIT2 \o SizeBytes(TextFrameSize(f.Title[1])) \o <<0, 0>>
             \o TextFrameBytes(f.Title[1])
        ELSE <<>>)

\* the TOC frames id3v2.Open parses from a file: UnknownFrames of the bodies
ParsedTOCs(frames) ==
    [k \in 1..Len(frames) |->
        IF "frame" \in DOMAIN frames[k] THEN UnknownFrame(WrittenBody(frames[k].frame))
        ELSE frames[k]]

InitExec ==
    /\ csvPath \in ExecCSVArgs
    /\ mp3Path \in ExecInputArgs
    /\ outputPath \in ExecOutputArgs
    /\ records \in ExecTables
    /\ term \in TerminationBytes
    /\ \E csvThere \in BOOLEAN, inputThere \in BOOLEAN, preOut \in BOOLEAN :
          disk0 = [p \in ExecPaths |->
                     IF p = csvPath /\ csvThere THEN OtherFile("markers")
                     ELSE IF p = mp3Path /\ inputThere THEN InputFile(EmptyTag)
                     ELSE IF p = ResolveOutput(mp3Path, outputPath) /\ preOut
                          THEN OtherFile("old output")
                     ELSE Absent]
    /\ disk = disk0
    /\ out = NoPath
    /\ fpc = "idle"
    /\ ferr = NoError
    /\ tagOpen = FALSE
    /\ tmpCreated = FALSE
    /\ confirmed = FALSE
    /\ response = <<>>
    /\ chapters = <<>>
    /\ TimeIdle
    /\ epc = "validate"
    /\ exitCode = -1
    /\ parsed = Unset
    /\ markers = <<>>
    /\ tag = EmptyTag
    /\ tag0 = EmptyTag
    /\ calls = 0
    /\ apc = "idle"
    /\ cf = createCTOCFrame(Bytes_toc, TRUE, TRUE, <<>>, <<>>)
    /\ wpc = "idle"
    /\ wk = 1
    /\ wbuf = <<>>
    /\ wn = 0
    /\ werr = FALSE
    /\ body = <<>>
    /\ info = Unset

\* parseAndValidateArgs and the exit of Execute on its error; fileExists
\* dereferences a nil FileInfo when os.Stat fails for another reason than a
\* missing file, and the panic ends the process with status 2
ExecValidate ==
    /\ epc = "validate"
    /\ \/ IF ArgsAccepted(disk, csvPath, mp3Path, outputPath)
          THEN epc' = "parse" /\ UNCHANGED exitCode
          ELSE Exit(1)
       \/ /\ ~(csvPath = NoPath \/ mp3Path = NoPath)
          /\ Exit(2)
    /\ UNCHANGED <<mp3Path, outputPath, out, disk, disk0, fpc, ferr, tagOpen, tmpCreated,
                   confirmed, response, chapters, timeVars, csvPath>>
    /\ UNCHANGED <<codecVars, asmVars>>

\* ParseAuditionCSV(config.CSVPath): the file cannot be opened or read, or
\* its records are parsed; on success Execute calls AddChapters
ExecParse ==
    /\ epc = "parse"
    /\ \E r \in {[err |-> "Cannot open CSV file", markers |-> <<>>],
                 ParseAuditionCSV(records)} :
          /\ parsed' = r
          /\ IF r.err # NoError
             THEN Exit(1) /\ UNCHANGED <<markers, fpc>>
             ELSE /\ markers' = r.markers
                  /\ epc' = "write"
                  /\ fpc' = "call"
                  /\ UNCHANGED exitCode
    /\ UNCHANGED <<mp3Path, outputPath, out, disk, disk0, ferr, tagOpen, tmpCreated,
                   confirmed, response, chapters, timeVars, csvPath>>
    /\ UNCHANGED <<codecVars, records, tag, tag0, calls, apc>>

\* AddChapters has returned: exit on its error, else go on to the read back
ExecAfterWrite ==
    /\ epc = "write"
    /\ fpc = "ret"
    /\ IF ferr # NoError
       THEN Exit(1)
       ELSE epc' = "verify" /\ UNCHANGED exitCode
    /\ UNCHANGED <<mp3Path, outputPath, out, disk, disk0, fpc, ferr, tagOpen, tmpCreated,
                   confirmed, response, chapters, timeVars, csvPath>>
    /\ UNCHANGED <<codecVars, asmVars>>

\* verifyAndShowChapters(determineOutputPath(...)): ReadChapters, and ReadTOC
\* when there are chapters; Execute then returns
ExecVerify ==
    /\ epc = "verify"
    /\ LET targetFile == determineOutputPath(mp3Path, outputPath) IN
          \/ /\ UNCHANGED <<chapters, info>>
          \/ /\ fileExists(disk, targetFile)
             /\ chapters' \in SortSlice(CollectChapters(disk[targetFile].frames.CHAP))
             /\ IF Len(chapters') = 0 THEN UNCHANGED info
                ELSE info' \in {ParseError("Cannot open MP3 file"),
                                FirstTOC(ParsedTOCs(disk[targetFile].frames.CTOC))}
    /\ Exit(0)
    /\ UNCHANGED <<mp3Path, outputPath, out, disk, disk0, fpc, ferr, tagOpen, tmpCreated,
                   confirmed, response, timeVars, csvPath>>
    /\ UNCHANGED <<cf, wpc, wk, wbuf, wn, werr, body, term>>
    /\ UNCHANGED asmVars

\* AddChapters runs only while Execute is inside its call
ExecWrite ==
    /\ epc = "write"
    /\ NextFile

NextExec ==
    \/ ExecValidate
    \/ ExecParse
    \/ ExecWrite
    \/ ExecAfterWrite
    \/ ExecVerify

SpecExec == InitExec /\ [][NextExec]_vars

----------------------------------------------------------------------------
(* The time specification: a string is parsed, or a Duration is formatted  *)
(* and the text parsed again                                               *)

\* most colon-separated parts of a time string
MaxParts == 4

\* parts of a time string: numbers, a letter, the empty string and NaN
TimeParts == {<<48>>, <<48, 49>>, <<49>>, <<51, 48, 46, 53, 48, 48>>, <<57, 48, 46, 53>>, <<120>>, <<>>, <<78, 97, 78>>}

RECURSIVE Join(_, _)
\* strings.Join(parts, sep) for a one-byte separator
Join(parts, sep) ==
    IF Len(parts) = 0 THEN <<>>
    ELSE IF Len(parts) = 1 THEN parts[1]
    ELSE parts[1] \o <<sep>> \o Join(Tail(parts), sep)

TimeStrings == {Join(q, Colon) : q \in SeqsUpTo(TimeParts, MaxParts) \ {<<>>}}

\* the Durations formatted, in milliseconds: below and above one hour
Durations ==
    {((h * 60 + m) * 60 + sec) * Second + ms :
        h \in {0, 1, 2, 100}, m \in {0, 1, 59}, sec \in {0, 30, 59}, ms \in {0, 7, 500, 999}}

RECURSIVE Zeros(_)
Zeros(n) == IF n <= 0 THEN <<>> ELSE <<48>> \o Zeros(n - 1)

\* fmt.Sprintf("%0<width>d", i) for i >= 0
Sprintf_0d(width, i) ==
    LET digits == Sprintf_d(i) IN Zeros(width - Len(digits)) \o digits

\* a format that pads the milliseconds to two digits only
FormatDurationShortMillis(d) ==
    LET hours == d \div (3600 * Second)
        minutes == (d \div (60 * Second)) % 60
        seconds == (d \div Second) % 60
        millis == d % 1000
    IN  IF hours > 0
        THEN Sprintf_d(hours) \o <<Colon>> \o Sprintf_0d(2, minutes) \o <<Colon>>
             \o Sprintf_0d(2, seconds) \o <<46>> \o Sprintf_0d(2, millis)
        ELSE Sprintf_d(minutes) \o <<Colon>> \o Sprintf_0d(2, seconds) \o <<46>>
             \o Sprintf_0d(2, millis)

\* FormatDuration for d >= 0: int(d.Hours()), int(d.Minutes()) % 60,
\* int(d.Seconds()) % 60, int(d.Milliseconds()) % 1000
FormatDuration(d) ==
    LET hours == d \div (3600 * Second)
        minutes == (d \div (60 * Second)) % 60
        seconds == (d \div Second) % 60
        millis == d % 1000
    IN  IF hours > 0
        THEN Sprintf_d(hours) \o <<Colon>> \o Sprintf_0d(2, minutes) \o <<Colon>>
             \o Sprintf_0d(2, seconds) \o <<46>> \o Sprintf_0d(3, millis)
        ELSE Sprintf_d(minutes) \o <<Colon>> \o Sprintf_0d(2, seconds) \o <<46>>
             \o Sprintf_0d(3, millis)

InitTime ==
    /\ build \in Builds
    /\ ExecIdle
    /\ timeOut = TimeError("unset")
    /\ \/ timeIn \in TimeStrings /\ duration = 0 /\ tpc = "parse"
       \/ timeIn = <<>> /\ duration \in Durations /\ tpc = "format"
    /\ CodecIdle
    /\ AsmIdle
    /\ mp3Path = NoPath
    /\ outputPath = NoPath
    /\ out = NoPath
    /\ disk = <<>>
    /\ disk0 = <<>>
    /\ fpc = "idle"
    /\ ferr = NoError
    /\ tagOpen = FALSE
    /\ tmpCreated = FALSE
    /\ confirmed = FALSE
    /\ response = <<>>
    /\ chapters = <<>>

\* FormatDuration(duration), whose text goes to parseTimeString
FormatTime ==
    /\ tpc = "format"
    /\ timeIn' = FormatDuration(duration)
    /\ tpc' = "formatted"
    /\ UNCHANGED <<build, duration, timeOut>>
    /\ UNCHANGED <<codecVars, asmVars>>
    /\ UNCHANGED <<mp3Path, outputPath, out, disk, disk0, fpc, ferr, tagOpen, tmpCreated,
                   confirmed, response, chapters, execVars>>

\* parseTimeString(timeIn)
ParseTime ==
    /\ tpc \in {"parse", "formatted"}
    /\ timeOut' = parseTimeString(timeIn)
    /\ tpc' = IF tpc = "parse" THEN "parsed" ELSE "round"
    /\ UNCHANGED <<build, timeIn, duration>>
    /\ UNCHANGED <<codecVars, asmVars>>
    /\ UNCHANGED <<mp3Path, outputPath, out, disk, disk0, fpc, ferr, tagOpen, tmpCreated,
                   confirmed, response, chapters, execVars>>

NextTime ==
    \/ FormatTime
    \/ ParseTime

SpecTime == InitTime /\ [][NextTime]_vars

----------------------------------------------------------------------------
(* The table specification: ParseAuditionCSV on the rows of one file       *)

\* most rows of a table
MaxTableRows == 3

\* rows: a header, a row with the name column only, a row with the start
\* column only, "A" at 0, "B" at -5, a blank name at 2, "C" at x, a blank
\* name at x
TableRows ==
    {HeaderRow,
     <<<<78, 97, 109, 101>>>>,
     <<<<83, 116, 97, 114, 116>>>>,
     <<<<65>>, <<48>>>>,
     <<<<66>>, <<45, 53>>>>,
     <<<<32>>, <<50>>>>,
     <<<<67>>, <<120>>>>,
     <<<<32>>, <<120>>>>}

CSVTables == SeqsUpTo(TableRows, MaxTableRows)

InitCSV ==
    /\ records \in CSVTables
    /\ parsed = Unset
    /\ markers = <<>>
    /\ tag0 = EmptyTag
    /\ tag = tag0
    /\ calls = 0
    /\ apc = "start"
    /\ CodecIdle
    /\ FileIdle

NextCSV == ParseCSV

SpecCSV == InitCSV /\ [][NextCSV]_vars

----------------------------------------------------------------------------
(* The scan specification: extractCTOCInfo on frame bodies put together    *)
(* from a header, a declared child count, child-id data and what follows   *)

\* largest child count a body declares
MaxScanCount == 3

\* most terminated strings of the child-id data
MaxScanIDs == 2

\* a 14-byte id "xxTIT2aaaaaa", 0x03, "A": the bytes TIT2 at its third byte
\* and a text encoding byte ten bytes after them
Bytes_idWithTag == <<120, 120>> \o Bytes_TIT2 \o <<97, 97, 97, 97, 97, 97, 3, 65>>

\* ids of length 0, 1, 2 and 14
ScanIDs == {<<>>, <<99>>, <<99, 104>>, Bytes_idWithTag}

RECURSIVE Terminated(_, _)
\* the ids from index k on, each followed by 0x00
Terminated(ids, k) ==
    IF k > Len(ids) THEN <<>> ELSE ids[k] \o <<0>> \o Terminated(ids, k + 1)

\* a title sub-frame "TIT2", size 3, flags 0 0, UTF-8, "T", 0x00
Bytes_titleSubFrame == Bytes_TIT2 \o <<0, 0, 0, 3>> \o <<0, 0>> \o <<EncodingUTF8Key, 84, 0>>

\* what follows the child-id data: nothing, a title sub-frame, a string
\* without terminator, or such a string and then nothing else
ScanTails == {<<>>, Bytes_titleSubFrame, <<99, 104, 112>>, <<84>>}

\* element id "t", 0x00, flags 3, the count, the terminated ids, the tail
ScanBodies ==
    {<<116, 0, 3, n>> \o Terminated(ids, 1) \o tail :
        n \in 0..MaxScanCount, ids \in SeqsUpTo(ScanIDs, MaxScanIDs), tail \in ScanTails}

InitScan ==
    /\ body \in ScanBodies
    /\ info = Unset
    /\ wpc = "scan"
    /\ cf = createCTOCFrame(Bytes_toc, TRUE, TRUE, <<>>, <<>>)
    /\ wk = 1
    /\ wbuf = <<>>
    /\ wn = 0
    /\ werr = FALSE
    /\ term = <<>>
    /\ AsmIdle
    /\ FileIdle

\* extractCTOCInfo on the body of the frame
ScanBody ==
    /\ wpc = "scan"
    /\ info' = extractCTOCInfo(body)
    /\ wpc' = "scanned"
    /\ UNCHANGED <<cf, wk, wbuf, wn, werr, body, term>>
    /\ UNCHANGED <<asmVars, fileVars>>

NextScan == ScanBody

SpecScan == InitScan /\ [][NextScan]_vars

----------------------------------------------------------------------------
(* The wide frame specification: the codec on frames that hold more child  *)
(* ids than one byte counts                                                *)

\* child counts one and two past the largest a byte holds
WideCounts == {MaxChildCount + 1, MaxChildCount + 2}

\* the ids addChapterFrames gives n markers with names: chp0 .. chp<n-1>
WideChildList(n) == [i \in 1..n |-> ElementIDOf(i - 1)]

WideFrames ==
    {createCTOCFrame(Bytes_toc, TRUE, TRUE, WideChildList(n), Bytes_tocTitle) : n \in WideCounts}

InitWide ==
    /\ term \in TerminationBytes
    /\ \/ cf \in WideFrames /\ wpc = "id"
       \/ cf = createCTOCFrame(Bytes_toc, TRUE, TRUE, <<>>, <<>>) /\ wpc = "read"
    /\ wk = 1
    /\ wbuf = <<>>
    /\ wn = 0
    /\ werr = FALSE
    /\ body = <<>>
    /\ info = Unset
    /\ AsmIdle
    /\ FileIdle

SpecWide == InitWide /\ [][NextCodec]_vars

----------------------------------------------------------------------------
(* Properties of the assembly *)

Added == calls >= 1

\* "chp" followed by decimal digits
IsChapterID(id) ==
    /\ Len(id) > 3
    /\ SubSeq(id, 1, 3) = Bytes_chp
    /\ \A k \in 4..Len(id) : id[k] \in 48..57

\* 0-based positions of the markers whose name is not blank
KeptPositions(ms) == {i \in 0..(Len(ms) - 1) : TrimSpace(At(ms, i).Name) # <<>>}

\* a frame sequence holds a frame that was in the tag before the first call
HoldsOld(fs, old) == \E k \in 1..Len(fs), j \in 1..Len(old) : fs[k] = old[j]

ChapterIDs(t) == [k \in 1..Len(t.CHAP) |-> t.CHAP[k].ElementID]

IsBlankRow(row) == Len(row) >= 2 /\ TrimSpace(row[1]) = <<>>

IsValidRow(row) ==
    /\ Len(row) >= 2
    /\ TrimSpace(row[1]) # <<>>
    /\ parseTimeString(TrimSpace(row[2])).err = NoError

\* the marker file of the end-to-end case: header, then valid, valid,
\* blank-name, valid
FourRowFile ==
    /\ Len(records) = 5
    /\ records[1] = HeaderRow
    /\ IsValidRow(records[2]) /\ IsValidRow(records[3])
    /\ IsBlankRow(records[4]) /\ IsValidRow(records[5])

\* C1 as stated: the end-to-end run on that file leaves chapter frames chp0,
\* chp1, chp3 and one TOC frame with exactly these child ids.
C1_AsStated ==
    (FourRowFile /\ Added) =>
        /\ ChapterIDs(tag) = <<ElementIDOf(0), ElementIDOf(1), ElementIDOf(3)>>
        /\ Len(tag.CTOC) = 1
        /\ tag.CTOC[1].frame.ChildIDs = <<ElementIDOf(0), ElementIDOf(1), ElementIDOf(3)>>

\* C1 (amended): ParseAuditionCSV drops the blank-name row, so AddChapters
\* receives three markers and the tag holds exactly 3 chapter frames chp0,
\* chp1, chp2 and exactly one TOC frame whose childIDs are [chp0, chp1, chp2].
C1_EndToEnd ==
    (FourRowFile /\ Added) =>
        /\ Len(markers) = 3
        /\ ChapterIDs(tag) = <<ElementIDOf(0), ElementIDOf(1), ElementIDOf(2)>>
        /\ Len(tag.CTOC) = 1
        /\ tag.CTOC[1].frame.ChildIDs = <<ElementIDOf(0), ElementIDOf(1), ElementIDOf(2)>>

C1_Witness ==
    /\ FourRowFile
    /\ Added
    /\ parsed.err = NoError
    /\ Len(tag.CHAP) = 3

\* C2 as stated: after any number of calls with the same markers the tag
\* holds exactly one TOC frame and one chapter frame per non-blank marker.
C2_AsStated ==
    Added =>
        /\ Len(tag.CTOC) = 1
        /\ Len(tag.CHAP) = Cardinality(KeptPositions(markers))

\* C2 (amended): after one, two or more calls with the same markers the tag
\* holds one chapter frame per non-blank marker, exactly one TOC frame when
\* there is such a marker and none otherwise, and no frame of an earlier run.
C2_Idempotent ==
    Added =>
        /\ Len(tag.CHAP) = Cardinality(KeptPositions(markers))
        /\ Len(tag.CTOC) = (IF KeptPositions(markers) = {} THEN 0 ELSE 1)
        /\ ~HoldsOld(tag.CHAP, tag0.CHAP)
        /\ ~HoldsOld(tag.CTOC, tag0.CTOC)

C2_Witness ==
    /\ calls >= 2
    /\ tag0.CHAP # <<>> /\ tag0.CTOC # <<>>
    /\ Cardinality(KeptPositions(markers)) = 2
    /\ Len(tag.CHAP) = 2
    /\ Len(tag.CTOC) = 1

\* C3: after a call with at least one non-blank marker the TOC frame's
\* childIDs are the element ids of the chapter frames of the tag, in order,
\* each chapter frame referenced exactly once.
C3_TocMatchesChapters ==
    (Added /\ KeptPositions(markers) # {}) =>
        /\ Len(tag.CTOC) = 1
        /\ LET children == tag.CTOC[1].frame.ChildIDs IN
              /\ children = ChapterIDs(tag)
              /\ \A k \in 1..Len(children) :
                    \E j \in 1..Len(tag.CHAP) : tag.CHAP[j].ElementID = children[k]
              /\ \A j \in 1..Len(tag.CHAP) :
                    Cardinality({k \in 1..Len(children) :
                                    children[k] = tag.CHAP[j].ElementID}) = 1

C3_Witness ==
    /\ Added
    /\ tag0.CHAP # <<>>
    /\ Len(tag.CHAP) >= 2
    /\ Len(tag.CTOC) = 1
    /\ Len(tag.CTOC[1].frame.ChildIDs) >= 2

\* the number written after "chp" in an element id
SuffixOf(id) == DigitsValue(SubSeq(id, 4, Len(id)))

\* C4: the element ids of one call are pairwise distinct and strictly
\* increasing in their numeric suffix, and the id of a kept marker is "chp"
\* followed by its 0-based position in the marker list.
C4_ElementIDs ==
    Added =>
        /\ \A j, k \in 1..Len(tag.CHAP) :
              j < k => /\ tag.CHAP[j].ElementID # tag.CHAP[k].ElementID
                       /\ SuffixOf(tag.CHAP[j].ElementID) < SuffixOf(tag.CHAP[k].ElementID)
        /\ \A k \in 1..Len(tag.CHAP) :
              LET id == tag.CHAP[k].ElementID IN
              /\ IsChapterID(id)
              /\ SuffixOf(id) \in KeptPositions(markers)
              /\ tag.CHAP[k].Title = TitleOf(At(markers, SuffixOf(id)).Name)
              /\ Cardinality({i \in KeptPositions(markers) : i < SuffixOf(id)}) = k - 1

\* a blank-name marker lies between two kept ones: its position is skipped
C4_Witness ==
    /\ Added
    /\ Len(markers) = 3
    /\ KeptPositions(markers) = {0, 2}
    /\ ChapterIDs(tag) = <<ElementIDOf(0), ElementIDOf(2)>>

----------------------------------------------------------------------------
(* Properties of the codec *)

WriteDone == wpc = "done" /\ ~werr

ReadBack == WriteDone /\ info # Unset

TitleText(f) == IF f.Title = NilTitle THEN <<>> ELSE f.Title[1]

\* a TOC frame of the shape addChapterFrames builds
AsBuiltByAssembly(f) ==
    /\ f.ElementID = Bytes_toc
    /\ f.Title = TitleOf(Bytes_tocTitle)
    /\ Len(f.ChildIDs) <= MaxChildCount
    /\ \A k \in 1..Len(f.ChildIDs) : IsChapterID(f.ChildIDs[k])

\* C5: a TOC frame as built by assembly, written by CTOCFrame.WriteTo and
\* read by extractCTOCInfo, comes back with the same two flags, the same
\* number of child ids, the same child ids in the same order and the same title.
C5_RoundTrip ==
    (ReadBack /\ AsBuiltByAssembly(cf)) =>
        /\ info.err = NoError
        /\ info.IsTopLevel = cf.IsTopLevel
        /\ info.IsOrdered = cf.IsOrdered
        /\ Len(info.ChildIDs) = Len(cf.ChildIDs)
        /\ info.ChildIDs = cf.ChildIDs
        /\ info.Title = Bytes_tocTitle

C5_Witness ==
    /\ ReadBack
    /\ AsBuiltByAssembly(cf)
    /\ cf.IsTopLevel /\ cf.IsOrdered
    /\ cf.ChildIDs = <<ElementIDOf(0), ElementIDOf(1)>>
    /\ info.ChildIDs = <<ElementIDOf(0), ElementIDOf(1)>>
    /\ info.Title = Bytes_tocTitle

\* offset (0-based) of the k-th child id in the written bytes
ChildOffset(f, k) == Len(f.ElementID) + 3 + SumLen(SubSeq(f.ChildIDs, 1, k - 1))

BigEndian32(b) == ((b[1] * 256 + b[2]) * 256 + b[3]) * 256 + b[4]

C7_SizeMatches ==
    WriteDone => (Size(cf) = Len(wbuf) /\ wn = Len(wbuf))

C7_Witness ==
    /\ WriteDone
    /\ cf.Title # NilTitle
    /\ Len(cf.ChildIDs) >= 2
    /\ Size(cf) = wn

\* the three conditions under which the claim expects a ParseError
MalformedBody(b) ==
    \/ Len(b) < 3
    \/ \A i \in 1..Len(b) : b[i] # 0
    \/ \E i \in 1..Len(b) :
          /\ b[i] = 0
          /\ \A j \in 1..(i - 1) : b[j] # 0
          /\ Len(b) < i + 2

\* C8: extractCTOCInfo returns a ParseError exactly when the body has fewer
\* than 3 bytes, or holds no 0x00, or has no flags byte and count byte after
\* the element-id terminator; every other body yields a CTOCInfo and no error.
C8_ErrorsExactly ==
    (info # Unset) => ((info.err # NoError) <=> MalformedBody(body))

C8_Witness ==
    /\ info # Unset
    /\ Len(body) >= 3
    /\ body[1] = 0
    /\ info.err = NoError

----------------------------------------------------------------------------
(* Properties of the file operations *)

Returned == fpc = "ret"

\* C9: when addChaptersToNewFile returns an error after the temp file
\* outputPath+".tmp" has been created, no file exists at outputPath+".tmp"
\* and the file at outputPath is as it was before the call.  The input is
\* taken to be a file other than the temp file, so that the copy is between
\* two files.
C9_NoPartialOutput ==
    (Returned /\ ferr # NoError /\ tmpCreated /\ mp3Path # TempPath(out))
        => /\ ~fileExists(disk, TempPath(out))
           /\ disk[out] = disk0[out]

\* C10: when the output path, given or derived, differs from the input path,
\* the input file is the same after the call as before it, on every outcome.
C10_InputUntouched ==
    (Returned /\ out # mp3Path) => disk[mp3Path] = disk0[mp3Path]

\* the call writes to a new file: addChaptersToNewFile is running or has run
ToNewFile == out # NoPath /\ out # mp3Path

\* C26: addChaptersToNewFile changes or removes no file that was there before
\* the call, except the file at outputPath after a confirmed prompt; a file
\* that was at outputPath+".tmp" keeps its contents, whatever the outcome.
C26_ExistingFilesKept ==
    ToNewFile =>
        \A p \in DOMAIN disk :
            (fileExists(disk0, p) /\ disk[p] # disk0[p]) => (p = out /\ confirmed)

\* the line is y or yes, in any case and with blanks around it
IsYes(line) == TrimSpace(ToLower(line)) \in {<<121>>, <<121, 101, 115>>}

Declined == ferr \in {"Operation cancelled by user", "Error reading input"}

\* C11: AddChapters changes or replaces a file that exists at the output path
\* only after the prompt has read y or yes; after any other answer or a read
\* error it returns an error, and then no tag was opened, no temp file was
\* created and no file has changed.
C11_ConfirmFirst ==
    /\ (fpc # "call" /\ disk0[out] # Absent /\ disk[out] # disk0[out])
           => (response # <<>> /\ IsYes(response))
    /\ (response # <<>> /\ ~IsYes(response)) => (Returned /\ Declined)
    /\ (Returned /\ Declined)
           => (~tagOpen /\ tag = EmptyTag /\ ~tmpCreated /\ disk = disk0)

C11_Witness ==
    /\ Returned /\ ferr = NoError
    /\ out # mp3Path
    /\ disk0[out] # Absent /\ disk[out] # disk0[out]
    /\ IsYes(response)

----------------------------------------------------------------------------
(* Properties of the tag container *)

\* addChaptersInPlace, addChaptersToNewFile or ReadTOC has returned, or
\* ReadChapters has and ReadTOC is about to be called
OperationReturned == fpc \in {"ret", "rt_open"}

\* C12: every tag opened by addChaptersInPlace, addChaptersToNewFile,
\* ReadChapters or ReadTOC is closed when that operation returns, on every
\* return path, and in addChaptersToNewFile before the temp file is renamed.
C12_TagsClosed ==
    /\ OperationReturned => ~tagOpen
    /\ fpc \in {"nf_rename", "nf_cleanup"} => ~tagOpen

C12_Witness ==
    /\ fpc = "nf_rename"
    /\ ~tagOpen
    /\ disk[TempPath(out)].frames = tag
    /\ tag.CHAP # <<>>

----------------------------------------------------------------------------
(* Properties of the time codec *)

\* a decimal number: an optional sign, digits, at most one point, a digit
\* at least
IsDecimal(part) ==
    LET num == IF part # <<>> /\ part[1] \in {43, 45} THEN Tail(part) ELSE part IN
    /\ \A k \in 1..Len(num) : IsDigit(num[k]) \/ num[k] = 46
    /\ Cardinality({k \in 1..Len(num) : num[k] = 46}) <= 1
    /\ \E k \in 1..Len(num) : IsDigit(num[k])

\* the number a decimal part stands for, in thousandths
Thousandths(part) == ParseFloat(part).ns

\* so many thousandths of a second as a Duration
InDuration(th) == th * (Second \div 1000)

Parsed == tpc = "parsed"

\* C13: parseTimeString maps a decimal string to that many seconds, m:s to
\* m*60+s seconds and h:m:s to h*3600+m*60+s seconds, so that "90.5",
\* "1:30.500" and "0:01:30.500" all give 90500 ms; a string with another
\* number of parts, or with a part that is not a number, gives an error and
\* no duration.
C13_TimeFormats ==
    Parsed =>
        LET parts == Split(timeIn, Colon)
            n == Len(parts)
            numeric == \A k \in 1..n : IsDecimal(parts[k])
        IN  /\ (numeric /\ n = 1) =>
                   (timeOut.err = NoError /\ timeOut.d = InDuration(Thousandths(parts[1])))
            /\ (numeric /\ n = 2) =>
                   (timeOut.err = NoError
                    /\ timeOut.d = InDuration(Thousandths(parts[1]) * 60 + Thousandths(parts[2])))
            /\ (numeric /\ n = 3) =>
                   (timeOut.err = NoError
                    /\ timeOut.d = InDuration(Thousandths(parts[1]) * 3600
                                            + Thousandths(parts[2]) * 60
                                            + Thousandths(parts[3])))
            /\ (timeIn \in {<<57, 48, 46, 53>>, <<49, 58, 51, 48, 46, 53, 48, 48>>, <<48, 58, 48, 49, 58, 51, 48, 46, 53, 48, 48>>}) => timeOut.d = 90500
            /\ (~numeric \/ n > 3) => (timeOut.err # NoError /\ timeOut.d = 0)

Abs(n) == IF n < 0 THEN 0 - n ELSE n

\* exactly n digits
IsDigits(str, n) == Len(str) = n /\ \A k \in 1..n : IsDigit(str[k])

\* digits without a leading zero, or the single digit 0
IsPlainNumber(str) ==
    /\ Len(str) >= 1
    /\ \A k \in 1..Len(str) : IsDigit(str[k])
    /\ (Len(str) > 1 => str[1] # 48)

\* SS.mmm with SS below 60
IsSecondsField(str) ==
    /\ Len(str) = 6
    /\ IsDigits(SubSeq(str, 1, 2), 2) /\ DigitsValue(SubSeq(str, 1, 2)) < 60
    /\ str[3] = 46
    /\ IsDigits(SubSeq(str, 4, 6), 3)

----------------------------------------------------------------------------
(* Properties of the table parser *)

TableParsed == parsed # Unset

\* C15: every marker ParseAuditionCSV returns has a name that is not empty
\* after trimming and a start time >= 0, for every table it accepts, signed
\* start times included.
C15_MarkersValid ==
    (TableParsed /\ parsed.err = NoError) =>
        \A k \in 1..Len(parsed.markers) :
            /\ TrimSpace(parsed.markers[k].Name) # <<>>
            /\ parsed.markers[k].StartTime >= 0

\* some cell of the row names the name column
HasNameCell(row) ==
    \E j \in 1..Len(row) : Contains(ToLower(TrimSpace(row[j])), Str_name)

\* some cell of the row names the start column and not the name column
HasStartCell(row) ==
    \E j \in 1..Len(row) :
        /\ Contains(ToLower(TrimSpace(row[j])), Str_start)
        /\ ~Contains(ToLower(TrimSpace(row[j])), Str_name)

\* some row completes both columns: a name cell and a start cell have been
\* seen in the rows up to it
SomeRowCompletes(recs) ==
    /\ \E i \in 1..Len(recs) : HasNameCell(recs[i])
    /\ \E i \in 1..Len(recs) : HasStartCell(recs[i])

\* C20: on a table of at most one row ParseAuditionCSV returns no markers and
\* no error, header or not; on a table of two or more rows of which none
\* completes both a name and a start column it returns the "columns not
\* found" error and no markers.
C20_TrivialAndHeaderless ==
    TableParsed =>
        /\ Len(records) <= 1 => (parsed.err = NoError /\ parsed.markers = <<>>)
        /\ (Len(records) >= 2 /\ ~SomeRowCompletes(records)) =>
               /\ parsed.err = "CSV format error: 'Name' and 'Start' columns not found"
               /\ parsed.markers = <<>>

C20_Witness ==
    /\ TableParsed
    /\ Len(records) = 2
    /\ ~SomeRowCompletes(records)
    /\ HasNameCell(records[1])
    /\ parsed.err # NoError

\* the largest member of a set of numbers
MaxOf(S) == CHOOSE x \in S : \A y \in S : y <= x

\* the header: the first row, counted from 1, up to which a name cell and a
\* start cell have both been seen
HeaderRowOf(recs) ==
    MinOf({i \in 1..Len(recs) :
              /\ \E a \in 1..i : HasNameCell(recs[a])
              /\ \E b \in 1..i : HasStartCell(recs[b])})

\* the 0-based name column at the header: the last name cell of the last
\* row with one, up to the header
NameColumnOf(recs) ==
    LET row == recs[MaxOf({a \in 1..HeaderRowOf(recs) : HasNameCell(recs[a])})] IN
    MaxOf({j \in 1..Len(row) : Contains(ToLower(TrimSpace(row[j])), Str_name)}) - 1

\* the 0-based start column at the header, found the same way
StartColumnOf(recs) ==
    LET row == recs[MaxOf({b \in 1..HeaderRowOf(recs) : HasStartCell(recs[b])})] IN
    MaxOf({j \in 1..Len(row) :
              /\ Contains(ToLower(TrimSpace(row[j])), Str_start)
              /\ ~Contains(ToLower(TrimSpace(row[j])), Str_name)}) - 1

\* C22: the rows parsed as markers are exactly the rows strictly after the
\* header row, the first row at which both column indices have been found;
\* the header row and the rows before it are never parsed as data, also
\* when a row above the header holds one of the two column names only.
C22_DataRowsAfterHeader ==
    (TableParsed /\ Len(records) >= 2 /\ SomeRowCompletes(records)) =>
        parsed = MarkerLoop(records, HeaderRowOf(records), NameColumnOf(records),
                            StartColumnOf(records), <<>>)

\* the 1-based indices of the rows after the header that are long enough
\* for both columns and have a name that is not blank
KeptRows(recs) ==
    LET ni == NameColumnOf(recs) + 1
        si == StartColumnOf(recs) + 1
    IN  {r \in (HeaderRowOf(recs) + 1)..Len(recs) :
            /\ Len(recs[r]) >= ni
            /\ Len(recs[r]) >= si
            /\ TrimSpace(recs[r][ni]) # <<>>}

\* the trimmed start cell of a row
StartCellOf(recs, r) == TrimSpace(recs[r][StartColumnOf(recs) + 1])

\* the kept rows whose start time cannot be parsed
BadRows(recs) == {r \in KeptRows(recs) : parseTimeString(StartCellOf(recs, r)).err # NoError}

\* the k-th smallest member of a set of numbers
NthOf(S, k) == CHOOSE x \in S : Cardinality({y \in S : y < x}) = k - 1

\* the result the rows after the header call for: an error that names the
\* first start cell that cannot be parsed, and no markers; or the kept rows'
\* trimmed names and parsed start times in row order
ExpectedMarkers(recs) ==
    IF BadRows(recs) # {}
    THEN [err |-> "Failed to parse start time",
          what |-> StartCellOf(recs, MinOf(BadRows(recs))), markers |-> <<>>]
    ELSE [err |-> NoError,
          markers |-> [k \in 1..Cardinality(KeptRows(recs)) |->
                         LET r == NthOf(KeptRows(recs), k) IN
                         [Name |-> TrimSpace(recs[r][NameColumnOf(recs) + 1]),
                          StartTime |-> parseTimeString(StartCellOf(recs, r)).d]]]

\* C23: of the data rows, a row too short for both columns is skipped, a
\* row with a blank name is skipped whatever its start cell holds, and a
\* start time of any other row that cannot be parsed makes the call return
\* an error naming that string and no markers; otherwise the markers are the
\* kept rows' trimmed names and parsed start times in row order.
C23_RowsKeptOrAborted ==
    (TableParsed /\ Len(records) >= 2 /\ SomeRowCompletes(records)) =>
        parsed = ExpectedMarkers(records)

\* no row above the header holds one of the two column names
HeaderComesFirst(recs) ==
    \A a \in 1..(HeaderRowOf(recs) - 1) :
        \A j \in 1..Len(recs[a]) :
            /\ ~Contains(ToLower(TrimSpace(recs[a][j])), Str_name)
            /\ ~Contains(ToLower(TrimSpace(recs[a][j])), Str_start)

\* the same for the tables in which the header is the first row that holds
\* a column name
RowsKeptOrAbortedUnderHeader ==
    (TableParsed /\ Len(records) >= 2 /\ SomeRowCompletes(records)
        /\ HeaderComesFirst(records)) =>
        parsed = ExpectedMarkers(records)

\* such a table with a blank-name row that has an unparseable start cell,
\* parsed without error
BlankNameBadTimeKept ==
    /\ TableParsed
    /\ Len(records) = 3
    /\ records[1] = HeaderRow
    /\ records[2] = <<<<32>>, <<120>>>>
    /\ parsed.err = NoError
    /\ Len(parsed.markers) = 1

----------------------------------------------------------------------------
(* Properties of the readers *)

\* ReadChapters has returned without an error
ChaptersRead == fpc \in {"rt_open", "rt_first", "ret"} /\ ferr = NoError

\* the chapter frames of the file that was read
FramesOnDisk == disk[mp3Path].frames.CHAP

\* the (title, start time) pair of a chapter frame, the title empty when the
\* frame has no title sub-frame
PairOf(frame) ==
    [Title |-> IF frame.Title = NilTitle THEN <<>> ELSE frame.Title[1],
     StartTime |-> frame.StartTime]

Occurrences(list, x) == Cardinality({k \in 1..Len(list) : list[k] = x})

\* C16: ReadChapters returns a list sorted ascending by start time that is a
\* permutation of the (title, start time) pairs of all chapter frames of the
\* tag, whatever their order there; a frame without a title gives an empty
\* title, and a tag without chapter frames gives an empty list and no error.
C16_SortedPermutation ==
    /\ ChaptersRead =>
           LET pairs == [k \in 1..Len(FramesOnDisk) |-> PairOf(FramesOnDisk[k])] IN
           /\ \A k \in 1..(Len(chapters) - 1) :
                  chapters[k].StartTime <= chapters[k + 1].StartTime
           /\ Len(chapters) = Len(pairs)
           /\ \A k \in 1..Len(pairs) :
                  Occurrences(chapters, pairs[k]) = Occurrences(pairs, pairs[k])
    /\ (ChaptersRead /\ FramesOnDisk = <<>>) => chapters = <<>>
    /\ ferr \in {NoError, "Cannot open MP3 file"}

C16_Witness ==
    /\ ChaptersRead
    /\ Len(FramesOnDisk) = 3
    /\ FramesOnDisk[1].StartTime > FramesOnDisk[2].StartTime
    /\ FramesOnDisk[2].Title = NilTitle
    /\ chapters[2].Title = <<>>
    /\ chapters[1].StartTime = 0

\* ReadTOC has opened the tag and returned
TOCRead == fpc = "ret" /\ info # ParseError("Cannot open MP3 file")

\* the TOC frames of the file that was read
TOCsOnDisk == disk[mp3Path].frames.CTOC

\* what ReadTOC returns for a tag whose TOC frames are just the first one
FirstAlone == FirstTOC(<<TOCsOnDisk[1]>>)

\* C17 as stated: the result of ReadTOC depends only on the first TOC frame,
\* also when that one is malformed; without a TOC frame ReadTOC returns the
\* "No CTOC frame" error while ReadChapters on the same tag returns an empty
\* list without error.
C17_AsStated ==
    TOCRead =>
        /\ TOCsOnDisk # <<>> => info = FirstAlone
        /\ TOCsOnDisk = <<>> =>
               /\ info = ParseError("No CTOC frame found")
               /\ ChaptersRead => chapters = <<>>

\* C17: the result of ReadTOC depends only on the first TOC frame, also when
\* that one is malformed (its error is returned and no later frame is tried);
\* without a TOC frame ReadTOC returns the "No CTOC frame" error, while
\* ReadChapters on a tag that has no chapter frames either returns an empty
\* list without error.
C17_FirstTOCOnly ==
    TOCRead =>
        /\ TOCsOnDisk # <<>> => info = FirstAlone
        /\ TOCsOnDisk = <<>> =>
               /\ info = ParseError("No CTOC frame found")
               /\ (ChaptersRead /\ FramesOnDisk = <<>>) => chapters = <<>>
               /\ ferr \in {NoError, "Cannot open MP3 file"}

C17_Witness ==
    /\ TOCRead
    /\ Len(TOCsOnDisk) = 2
    /\ FirstAlone.err # NoError
    /\ FirstTOC(<<TOCsOnDisk[2]>>).err = NoError
    /\ info = FirstAlone

----------------------------------------------------------------------------
(* Properties of an assembly without chapters *)

\* C18: after addChapterFrames with an empty marker list, or with markers
\* whose names are all blank, the tag holds no chapter frame and no TOC frame
\* whatever it held before, and its frames of other types are unchanged.
C18_NoMarkersClearsTag ==
    (Added /\ KeptPositions(markers) = {}) =>
        /\ tag.CHAP = <<>>
        /\ tag.CTOC = <<>>
        /\ tag.other = tag0.other

C18_Witness ==
    /\ Added
    /\ markers = <<>>
    /\ tag0.CHAP # <<>> /\ tag0.CTOC # <<>> /\ tag0.other # <<>>
    /\ tag = [tag0 EXCEPT !.CHAP = <<>>, !.CTOC = <<>>]

----------------------------------------------------------------------------
(* Properties of Execute *)

\* the last piece of the path is the extension .mp3 in any letter case
IsMP3Path(path) == path # NoPath /\ path[Len(path)] \in {".mp3", ".MP3"}

\* both required paths given and existing before the run, the input an MP3
\* path, and the output an MP3 path when one is given
ArgsValid ==
    /\ csvPath # NoPath
    /\ mp3Path # NoPath
    /\ disk0[csvPath] # Absent
    /\ disk0[mp3Path] # Absent
    /\ IsMP3Path(mp3Path)
    /\ (outputPath # NoPath => IsMP3Path(outputPath))

\* the whole marker table was parsed without an error
ParseSucceeded == parsed # Unset /\ parsed = ParseAuditionCSV(records) /\ parsed.err = NoError

\* AddChapters has been entered, or something on the file system differs
WorkDone == fpc # "idle" \/ disk # disk0 \/ tagOpen \/ tmpCreated

\* the output file has been read back
ReadBackDone == chapters # <<>> \/ info # Unset

HasExited == epc = "exit"

\* C19: Execute validates, parses, writes and reads back in this order: while
\* it validates or parses nothing has been done to any file; work is done
\* only after valid arguments and a successful parse of the whole table; the
\* read back happens only after AddChapters returned without error; and a
\* run whose validation or parse failed exits non-zero with no work done
C19_ValidateParseWriteRead ==
    /\ epc \in {"validate", "parse"} => ~WorkDone /\ ~ReadBackDone
    /\ epc = "validate" => parsed = Unset
    /\ WorkDone => ArgsValid /\ ParseSucceeded
    /\ epc = "write" => ~ReadBackDone
    /\ ReadBackDone => HasExited /\ exitCode = 0 /\ fpc = "ret" /\ ferr = NoError
    /\ (HasExited /\ (~ArgsValid \/ ~ParseSucceeded)) =>
          exitCode \in {1, 2} /\ ~WorkDone /\ ~ReadBackDone
    /\ (HasExited /\ exitCode = 0) => ArgsValid /\ ParseSucceeded /\ ferr = NoError

\* a run that went through all four steps: the output file was written and
\* its chapters and table of contents were read back
C19_Witness ==
    /\ HasExited
    /\ exitCode = 0
    /\ disk # disk0
    /\ Len(chapters) = 2
    /\ info # Unset
    /\ info.err = NoError

----------------------------------------------------------------------------
(* Properties of the scan of a frame body *)

Scanned == wpc = "scanned"

\* the index of the count byte: two past the terminator of the element id
CountPosOf(b) == (CHOOSE i \in 0..(Len(b) - 1) : At(b, i) = 0 /\ \A j \in 0..(i - 1) : At(b, j) # 0) + 2

\* the index of the first byte after the last terminator consumed for ids
AfterChildIDs(b, ids) == CountPosOf(b) + 1 + SumLen(ids)

\* C21: the scan for "TIT2" starts at the first byte after the last consumed
\* child-id terminator: the title returned is the one a scan from that byte
\* finds, so no byte of a child id is matched and no later byte is skipped
C21_ScanStartsAfterChildIDs ==
    (Scanned /\ info.err = NoError) =>
        info.Title = extractTitleFromCTOC(body, AfterChildIDs(body, info.ChildIDs))

\* the child count the body declares
DeclaredCount(b) == At(b, CountPosOf(b))

\* the bytes after the count byte
ChildData(b) == Slice(b, CountPosOf(b) + 1, Len(b))

\* the 1-based positions of the 0x00 bytes of the data
Terminators(data) == {i \in 1..Len(data) : data[i] = 0}

\* the k-th smallest of them
NthTerminator(data, k) ==
    CHOOSE z \in Terminators(data) : Cardinality({y \in Terminators(data) : y < z}) = k - 1

\* the 0x00-terminated strings of the data in order, terminators left out;
\* bytes after the last 0x00 belong to none of them
TerminatedStrings(data) ==
    [k \in 1..Cardinality(Terminators(data)) |->
        SubSeq(data, IF k = 1 THEN 1 ELSE NthTerminator(data, k - 1) + 1,
               NthTerminator(data, k) - 1)]

\* C24: a body that passes the header checks is read without error whatever
\* its child-id data holds; the ids returned are the first n 0x00-terminated
\* strings after the count byte, in order, or all of them when there are
\* fewer than n; a trailing string without terminator is not returned
C24_LenientShortRead ==
    Scanned =>
        LET all == TerminatedStrings(ChildData(body))
            n == DeclaredCount(body)
        IN  /\ info.err = NoError
            /\ Len(info.ChildIDs) <= n
            /\ info.ChildIDs = SubSeq(all, 1, IF n < Len(all) THEN n ELSE Len(all))

\* a short read: fewer ids than declared, and the data ends in a string
\* that has no terminator
C24_Witness ==
    /\ Scanned
    /\ Len(info.ChildIDs) >= 1
    /\ Len(info.ChildIDs) < DeclaredCount(body)
    /\ body[Len(body)] # 0
    /\ info.err = NoError

----------------------------------------------------------------------------
(* Properties of frames with more than 255 child ids *)

\* the number of child ids, each with its terminator, that follow the count
\* byte in the bytes written, up to the title sub-frame
ChildrenWritten ==
    Cardinality({k \in 1..Len(cf.ChildIDs) :
        LET o == ChildOffset(cf, k) IN
        /\ o + Len(cf.ChildIDs[k]) < Len(wbuf)
        /\ Slice(wbuf, o, o + Len(cf.ChildIDs[k])) = cf.ChildIDs[k]
        /\ At(wbuf, o + Len(cf.ChildIDs[k])) = 0})

\* C25: for a frame with more than 255 child ids the count byte WriteTo has
\* written equals the number of child ids it has written, and reading the
\* bytes back returns every child id written
C25_CountMatchesChildren ==
    (WriteDone /\ Len(cf.ChildIDs) > MaxChildCount) =>
        /\ At(wbuf, Len(cf.ElementID) + 2) = ChildrenWritten
        /\ (info # Unset => info.ChildIDs = cf.ChildIDs)

====
